---- MODULE Spec2Model ----
(***************************************************************************)
(* Peer network engine of LAN-OS (class NetworkNode): discovery registry,  *)
(* WebSocket sessions with their pairing handshake and heartbeat, message  *)
(* routing, the remote-shell consent flow, file reception and the game.    *)
(* Every node of Nodes runs the same code; a WebSocket is modelled by its  *)
(* two ends, each with the state the code keeps on it.                     *)
(***************************************************************************)
EXTENDS Integers, Sequences, FiniteSets, TLC

\* ------------------------------------------------------------------ bounds
MaxSocks == 2
MaxExecSocks == 1
MaxInbox == 2
MaxExec == 2
MaxSinks == 1
MaxSends == 2
MaxOffers == 2
MaxFrames == 2
MaxChunk == 3

Nodes == {1, 2, 3}
Cmds == {"ls", "rm"}
Texts == {"hi"}
Outputs == {"", "out"}

\* ------------------------------------------------------- program constants
\* activeTarget's sentinel "general" (no peer id equals it)
General == 0
\* the closure variable peerId / a JS null
Null == 0

\* the identity a node was constructed with
Identity(n) == [id |-> n, username |-> 10 + n]

\* what bonjour.publish announces for node m
Service(m) == [id |-> Identity(m).id, name |-> Identity(m).username,
               address |-> m, port |-> 9000 + m]

\* --------------------------------------------------------------- Map helpers
EmptyMap == << >>
MapHas(f, k) == k \in DOMAIN f
MapSetOnce(f, k, v) == [x \in (DOMAIN f) \cup {k} |-> IF x \in DOMAIN f THEN f[x] ELSE v]
MapSet(f, k, v) == [x \in (DOMAIN f) \cup {k} |-> IF x = k THEN v ELSE f[x]]
MapDel(f, k) == [x \in (DOMAIN f) \ {k} |-> f[x]]

\* pendingShell = null
NoShell == [pending |-> FALSE]

VARIABLES
  up,            \* the nodes whose process runs
  peers,         \* peers[n]: Map id -> discovered peer
  conns,         \* conns[n]: Map id -> [ws, meta, isAlive]
  activeTarget,  \* activeTarget[n]: General or a peer id
  pendingShell,  \* pendingShell[n]: NoShell or [pending, fromId, cmd]
  transfers,     \* transfers[n]: Map fileId -> index of its stream in sinks[n]
  sinks,         \* sinks[n]: the write streams created, [path, data, ended]
  game,          \* game[n]: GameEngine fields
  running,       \* running[n]: child processes started by exec, callback pending
  execLog,       \* execLog[n]: the commands exec was called with, in order
  reads,         \* reads[n]: the read streams _sendFile created, in order
  socks,         \* the WebSocket connections dialled, [from, to]
  ends,          \* ends[<<t, side>>]: one end of connection t (1 client, 2 server)
  ev,            \* the event handled by the last step
  sentNow,       \* the ws.send calls the last step made, [on, msg]
  emitted        \* the events the last step emitted

vars == <<up, peers, conns, activeTarget, pendingShell, transfers, sinks, game,
          running, execLog, reads, socks, ends, ev, sentNow, emitted>>

nodeVars == <<peers, conns, activeTarget, pendingShell, transfers, sinks, game,
              running, execLog, reads>>

\* ------------------------------------------------------------------- ends
Client == 1
Server == 2
Other(e) == <<e[1], 3 - e[2]>>
Owner(e) == IF e[2] = Client THEN socks[e[1]].from ELSE socks[e[1]].to
EndsOf(n) == {e \in DOMAIN ends : Owner(e) = n}

\* a WebSocket object before any event on it
NewEnd(ready) == [ready |-> ready, handled |-> FALSE, peerId |-> Null,
                  isAlive |-> FALSE, inbox |-> << >>, probed |-> FALSE, pong |-> FALSE]

Msg(type, payload) == [type |-> type, payload |-> payload]
\* a message text without a payload member
NoPayload == [absent |-> TRUE]

\* ws.send(m) on end e: the frame reaches the other end while that end is open
WsSend(E, e, m) ==
  IF E[Other(e)].ready = "open"
  THEN [E EXCEPT ![Other(e)].inbox = Append(@, m)]
  ELSE E

\* _send(ws, type, payload): sends only when ws.readyState is OPEN
Send(E, e, m) == IF E[e].ready = "open" THEN WsSend(E, e, m) ELSE E
Sent(E, e, m) == IF E[e].ready = "open" THEN <<[on |-> e, msg |-> m]>> ELSE << >>

\* ws.terminate(): the socket is destroyed, the close event follows
Terminate(E, e) ==
  IF E[e].ready = "open"
  THEN [E EXCEPT ![e].ready = "closing", ![e].inbox = << >>, ![e].pong = FALSE]
  ELSE E

Event(op, n, e) == [op |-> op, node |-> n, end |-> e]
NoEnd == <<0, 0>>

\* socket.destroy() queues the close event ahead of every I/O event: while a
\* terminated socket awaits its close event no other handler runs
Quiet == \A e \in DOMAIN ends : ends[e].ready # "closing"
Running(n) == n \in up /\ Quiet

\* ------------------------------------------------------------ GameEngine
EmptyBoard == [i \in 0..8 |-> "-"]
\* reset(): myRole is null, as an empty cell is
NewGame == [active |-> FALSE, board |-> EmptyBoard, turn |-> "X", myRole |-> "-"]

Init ==
  /\ up = Nodes
  /\ peers = [n \in Nodes |-> EmptyMap]
  /\ conns = [n \in Nodes |-> EmptyMap]
  /\ activeTarget = [n \in Nodes |-> General]
  /\ pendingShell = [n \in Nodes |-> NoShell]
  /\ transfers = [n \in Nodes |-> EmptyMap]
  /\ sinks = [n \in Nodes |-> << >>]
  /\ game = [n \in Nodes |-> NewGame]
  /\ running = [n \in Nodes |-> << >>]
  /\ execLog = [n \in Nodes |-> << >>]
  /\ reads = [n \in Nodes |-> << >>]
  /\ socks = << >>
  /\ ends = EmptyMap
  /\ ev = Event("init", 0, NoEnd)
  /\ sentNow = << >>
  /\ emitted = << >>

\* ------------------------------------------------------------- discovery
\* bonjour "up": a service s is announced to node n
DiscoveryUp(n, s) ==
  /\ Running(n)
  /\ IF s.id # Null /\ s.id # Identity(n).id
     THEN /\ peers' = [peers EXCEPT ![n] = MapSet(@, s.id, s)]
          /\ emitted' = <<"peers_update">>
     ELSE /\ peers' = peers
          /\ emitted' = << >>
  /\ ev' = [op |-> "up", node |-> n, end |-> NoEnd, svc |-> s]
  /\ sentNow' = << >>
  /\ UNCHANGED <<up, conns, activeTarget, pendingShell, transfers, sinks, game,
                 running, execLog, reads, socks, ends>>

\* bonjour "down"
DiscoveryDown(n, s) ==
  /\ Running(n)
  /\ IF s.id # Null
     THEN /\ peers' = [peers EXCEPT ![n] = MapDel(@, s.id)]
          /\ emitted' = <<"peers_update">>
     ELSE /\ peers' = peers
          /\ emitted' = << >>
  /\ ev' = [op |-> "down", node |-> n, end |-> NoEnd, svc |-> s]
  /\ sentNow' = << >>
  /\ UNCHANGED <<up, conns, activeTarget, pendingShell, transfers, sinks, game,
                 running, execLog, reads, socks, ends>>

\* -------------------------------------------------------------- sessions
\* connect(id): dial the discovered peer; an unknown id is a no-op
Connect(n, id) ==
  /\ Running(n)
  /\ IF MapHas(peers[n], id) /\ peers[n][id].address \in up
     THEN LET t == Len(socks) + 1 IN
          /\ socks' = Append(socks, [from |-> n, to |-> peers[n][id].address])
          /\ ends' = [e \in (DOMAIN ends) \cup {<<t, Client>>, <<t, Server>>} |->
                        IF e \in DOMAIN ends THEN ends[e]
                        ELSE IF e[2] = Client THEN NewEnd("connecting")
                        ELSE NewEnd("none")]
     ELSE /\ ~MapHas(peers[n], id)
          /\ UNCHANGED <<socks, ends>>
  /\ ev' = Event("connect", n, NoEnd)
  /\ sentNow' = << >>
  /\ emitted' = << >>
  /\ UNCHANGED <<up, nodeVars>>

\* connect(id) to a discovered peer whose process no longer listens
ConnectDown(n, id) ==
  /\ Running(n)
  /\ MapHas(peers[n], id)
  /\ peers[n][id].address \notin up
  /\ LET t == Len(socks) + 1 IN
     /\ socks' = Append(socks, [from |-> n, to |-> peers[n][id].address])
     /\ ends' = [e \in (DOMAIN ends) \cup {<<t, Client>>, <<t, Server>>} |->
                   IF e \in DOMAIN ends THEN ends[e]
                   ELSE IF e[2] = Client THEN NewEnd("connecting")
                   ELSE NewEnd("none")]
  /\ ev' = Event("connect", n, NoEnd)
  /\ sentNow' = << >>
  /\ emitted' = << >>
  /\ UNCHANGED <<up, nodeVars>>

\* _handleConn(ws): the per-connection state set before any event arrives
HandleConn(E, e) ==
  [E EXCEPT ![e].handled = TRUE, ![e].peerId = Null, ![e].isAlive = TRUE]

\* wss "connection": the server side accepts connection t
ServerAccept(t) ==
  LET e == <<t, Server>> IN
  /\ t \in 1..Len(socks)
  /\ Running(Owner(e))
  /\ ends[e].ready = "none"
  /\ ends[Other(e)].ready = "connecting"
  /\ ends' = HandleConn([ends EXCEPT ![e].ready = "open"], e)
  /\ ev' = Event("accept", Owner(e), e)
  /\ sentNow' = << >>
  /\ emitted' = << >>
  /\ UNCHANGED <<up, nodeVars, socks>>

\* the pairing message of node n
PairMsg(n, ack) ==
  Msg("pair", [fromId |-> Identity(n).id, name |-> Identity(n).username, ack |-> ack])

\* ws "open" on the dialling side: send pair (no ack), then _handleConn
ClientOpen(t) ==
  LET e == <<t, Client>>
      n == Owner(e)
      E1 == [ends EXCEPT ![e].ready = "open"]
  IN
  /\ t \in 1..Len(socks)
  /\ Running(n)
  /\ ends[e].ready = "connecting"
  /\ ends[Other(e)].ready = "open"
  /\ ends' = HandleConn(Send(E1, e, PairMsg(n, FALSE)), e)
  /\ sentNow' = Sent(E1, e, PairMsg(n, FALSE))
  /\ ev' = Event("open", n, e)
  /\ emitted' = << >>
  /\ UNCHANGED <<up, nodeVars, socks>>

\* a text message of the given type is next in line on end e of a running node
Receives(e, type) ==
  /\ e \in DOMAIN ends
  /\ Running(Owner(e))
  /\ ends[e].handled
  /\ ends[e].ready = "open"
  /\ ends[e].inbox # << >>
  /\ Head(ends[e].inbox).type = type
  /\ Head(ends[e].inbox).payload # NoPayload

Popped(e) == [ends EXCEPT ![e].inbox = Tail(@)]

\* the reply to a pairing message: none to an acknowledged one
PairReplyAlways(n, payload) == <<PairMsg(n, TRUE)>>
PairReply(n, payload) == IF ~payload.ack THEN <<PairMsg(n, TRUE)>> ELSE << >>

\* the conns entry a pairing message creates
PairEntry(e, payload) == [ws |-> e, meta |-> payload, isAlive |-> TRUE]

\* case "pair"
RecvPair(e) ==
  /\ Receives(e, "pair")
  /\ LET n == Owner(e)
         payload == Head(ends[e].inbox).payload
         E1 == [Popped(e) EXCEPT ![e].peerId = payload.fromId]
         reply == PairReply(n, payload)
     IN
     /\ conns' = [conns EXCEPT ![n] = MapSet(@, payload.fromId, PairEntry(e, payload))]
     /\ ends' = IF reply # << >> THEN Send(E1, e, reply[1]) ELSE E1
     /\ sentNow' = IF reply # << >> THEN Sent(E1, e, reply[1]) ELSE << >>
     /\ emitted' = <<"conns_update">>
     /\ ev' = Event("pair", n, e)
  /\ UNCHANGED <<up, peers, activeTarget, pendingShell, transfers, sinks, game,
                 running, execLog, reads, socks>>

\* ws "close": the session of the closure's peerId is deleted
CloseKeepsConn(C, n, peerId) == C
CloseConns(C, n, peerId) ==
  IF peerId # Null THEN [C EXCEPT ![n] = MapDel(@, peerId)] ELSE C

\* activeTarget after the close handler: it is not touched
CloseTargetResets(A, n, peerId) ==
  IF peerId # Null /\ A[n] = peerId THEN [A EXCEPT ![n] = General] ELSE A
CloseTarget(A, n, peerId) == A

Close(e) ==
  /\ e \in DOMAIN ends
  /\ Owner(e) \in up
  /\ ends[e].handled
  /\ \/ ends[e].ready = "closing"
     \/ /\ ends[e].ready = "open"
        /\ ends[e].inbox = << >>
        /\ \/ ends[Other(e)].ready \in {"closing", "closed"}
           \/ Owner(Other(e)) \notin up
  /\ ends' = [ends EXCEPT ![e].ready = "closed", ![e].inbox = << >>, ![e].pong = FALSE]
  /\ conns' = CloseConns(conns, Owner(e), ends[e].peerId)
  /\ emitted' = IF ends[e].peerId # Null THEN <<"conns_update">> ELSE << >>
  /\ activeTarget' = CloseTarget(activeTarget, Owner(e), ends[e].peerId)
  /\ ev' = Event("close", Owner(e), e)
  /\ sentNow' = << >>
  /\ UNCHANGED <<up, peers, pendingShell, transfers, sinks, game,
                 running, execLog, reads, socks>>

\* ------------------------------------------------------------- heartbeat
\* ws.ping(): the peer's ws library answers with a pong while it is connected
Ping(E, e) ==
  IF E[e].ready = "open" /\ E[Other(e)].ready = "open" /\ Owner(Other(e)) \in up
  THEN [E EXCEPT ![e].probed = TRUE, ![e].pong = TRUE]
  ELSE IF E[e].ready = "open" THEN [E EXCEPT ![e].probed = TRUE]
  ELSE E

\* the heartbeat's pass over a set of entries (order is immaterial: each entry
\* has its own socket)
RECURSIVE BeatEnds(_, _, _)
BeatEnds(E, C, keys) ==
  IF keys = {} THEN E
  ELSE LET k == CHOOSE x \in keys : TRUE
           E1 == IF C[k].isAlive = FALSE THEN Terminate(E, C[k].ws) ELSE Ping(E, C[k].ws)
       IN BeatEnds(E1, C, keys \ {k})

\* the entries after the pass: c.isAlive = false on every one
BeatConns(C) == [k \in DOMAIN C |-> [C[k] EXCEPT !.isAlive = FALSE]]

\* setInterval(..., PING_INTERVAL) callback
Tick(n) ==
  /\ Running(n)
  /\ conns[n] # EmptyMap
  /\ ends' = BeatEnds(ends, conns[n], DOMAIN conns[n])
  /\ conns' = [conns EXCEPT ![n] = BeatConns(@)]
  /\ ev' = Event("tick", n, NoEnd)
  /\ sentNow' = << >>
  /\ emitted' = << >>
  /\ UNCHANGED <<up, peers, activeTarget, pendingShell, transfers, sinks, game,
                 running, execLog, reads, socks>>

\* ws "pong": ws.isAlive = true
Pong(e) ==
  /\ e \in DOMAIN ends
  /\ Running(Owner(e))
  /\ ends[e].handled
  /\ ends[e].ready = "open"
  /\ ends[e].pong
  /\ ends' = [ends EXCEPT ![e].isAlive = TRUE, ![e].probed = FALSE, ![e].pong = FALSE]
  /\ ev' = Event("pong", Owner(e), e)
  /\ sentNow' = << >>
  /\ emitted' = << >>
  /\ UNCHANGED <<up, nodeVars, socks>>

\* an exception no handler catches ends the process: its sockets close
Crashed(E, n) ==
  [e \in DOMAIN E |->
     IF Owner(e) = n /\ E[e].ready # "none"
     THEN [E[e] EXCEPT !.ready = "closed", !.inbox = << >>, !.pong = FALSE]
     ELSE E[e]]

\* ws "error" on a dialling socket (the peer refuses or is gone): connect
\* registers no "error" listener, so the emit throws and the process ends
DialError(t) ==
  LET e == <<t, Client>>
      n == Owner(e)
  IN
  /\ t \in 1..Len(socks)
  /\ Running(n)
  /\ ends[e].ready = "connecting"
  /\ socks[t].to \notin up
  /\ up' = up \ {n}
  /\ ends' = Crashed(ends, n)
  /\ ev' = Event("dial-error", n, e)
  /\ sentNow' = << >>
  /\ emitted' = << >>
  /\ UNCHANGED <<nodeVars, socks>>

\* Ctrl-C: process.exit(0); the operating system closes the node's sockets
Exit(n) ==
  /\ Running(n)
  /\ up' = up \ {n}
  /\ ends' = [e \in DOMAIN ends |->
                IF Owner(e) = n /\ ends[e].ready # "none"
                THEN [ends[e] EXCEPT !.ready = "closed", !.inbox = << >>, !.pong = FALSE]
                ELSE ends[e]]
  /\ ev' = Event("exit", n, NoEnd)
  /\ sentNow' = << >>
  /\ emitted' = << >>
  /\ UNCHANGED <<nodeVars, socks>>

\* ------------------------------------------------------ inbound messages
\* the sender name the "chat" event carries: the payload is emitted as it came
ChatName(entry, payload) == payload.name

\* case "msg"
RecvMsg(e) ==
  /\ Receives(e, "msg")
  /\ ends' = Popped(e)
  /\ emitted' = <<"chat">>
  /\ ev' = [op |-> "msg", node |-> Owner(e), end |-> e,
            name |-> ChatName(conns[Owner(e)], Head(ends[e].inbox).payload)]
  /\ sentNow' = << >>
  /\ UNCHANGED <<up, nodeVars, socks>>

\* case "nudge"
RecvNudge(e) ==
  /\ Receives(e, "nudge")
  /\ ends' = Popped(e)
  /\ emitted' = <<"nudge_event">>
  /\ ev' = Event("nudge", Owner(e), e)
  /\ sentNow' = << >>
  /\ UNCHANGED <<up, nodeVars, socks>>

\* what a shell-req stores in pendingShell
ShellReqKeepFirst(old, payload) ==
  IF old.pending THEN old
  ELSE [pending |-> TRUE, fromId |-> payload.fromId, cmd |-> payload.cmd]
ShellReq(old, payload) ==
  [pending |-> TRUE, fromId |-> payload.fromId, cmd |-> payload.cmd]

\* what handling a shell-req runs: nothing
ShellReqRunsIt(log, payload) == Append(log, payload.cmd)
ShellReqRuns(log, payload) == log

\* case "shell-req"
RecvShellReq(e) ==
  /\ Receives(e, "shell-req")
  /\ LET n == Owner(e)
         payload == Head(ends[e].inbox).payload
     IN
     /\ pendingShell' = [pendingShell EXCEPT ![n] = ShellReq(@, payload)]
     /\ execLog' = [execLog EXCEPT ![n] = ShellReqRuns(@, payload)]
     /\ ev' = [op |-> "shell-req", node |-> n, end |-> e, over |-> pendingShell[n]]
  /\ ends' = Popped(e)
  /\ emitted' = <<"log:SECURITY WARNING", "log:Type /allow">>
  /\ sentNow' = << >>
  /\ UNCHANGED <<up, peers, conns, activeTarget, transfers, sinks, game, running,
                 reads, socks>>

\* case "shell-out"
RecvShellOut(e) ==
  /\ Receives(e, "shell-out")
  /\ ends' = Popped(e)
  /\ emitted' = <<"log:REMOTE OUTPUT">>
  /\ ev' = Event("shell-out", Owner(e), e)
  /\ sentNow' = << >>
  /\ UNCHANGED <<up, nodeVars, socks>>

\* case "file-offer" (the Date.now() prefix of the path is not represented)
RecvFileOffer(e) ==
  /\ Receives(e, "file-offer")
  /\ LET n == Owner(e)
         payload == Head(ends[e].inbox).payload
     IN
     /\ sinks' = [sinks EXCEPT ![n] =
                    Append(@, [path |-> payload.filename, data |-> << >>, ended |-> FALSE])]
     /\ transfers' = [transfers EXCEPT ![n] = MapSet(@, payload.fileId, Len(sinks[n]) + 1)]
     /\ ev' = Event("file-offer", n, e)
  /\ ends' = Popped(e)
  /\ emitted' = <<"log:Receiving file">>
  /\ sentNow' = << >>
  /\ UNCHANGED <<up, peers, conns, activeTarget, pendingShell, game, running,
                 execLog, reads, socks>>

\* case "file-end"
RecvFileEnd(e) ==
  /\ Receives(e, "file-end")
  /\ LET n == Owner(e)
         payload == Head(ends[e].inbox).payload
     IN
     /\ IF MapHas(transfers[n], payload.fileId)
        THEN /\ sinks' = [sinks EXCEPT ![n][transfers[n][payload.fileId]].ended = TRUE]
             /\ transfers' = [transfers EXCEPT ![n] = MapDel(@, payload.fileId)]
             /\ emitted' = <<"log:File Saved">>
        ELSE /\ UNCHANGED <<sinks, transfers>>
             /\ emitted' = << >>
     /\ ev' = Event("file-end", n, e)
  /\ ends' = Popped(e)
  /\ sentNow' = << >>
  /\ UNCHANGED <<up, peers, conns, activeTarget, pendingShell, game, running,
                 execLog, reads, socks>>

\* what a game-invite does to activeTarget
InviteTargetKept(old, payload) == old
InviteTarget(old, payload) == payload.fromId

\* case "game-invite"
RecvGameInvite(e) ==
  /\ Receives(e, "game-invite")
  /\ activeTarget' = [activeTarget EXCEPT ![Owner(e)] =
                        InviteTarget(@, Head(ends[e].inbox).payload)]
  /\ ends' = Popped(e)
  /\ emitted' = <<"log:INVITE">>
  /\ ev' = Event("game-invite", Owner(e), e)
  /\ sentNow' = << >>
  /\ UNCHANGED <<up, peers, conns, pendingShell, transfers, sinks, game, running,
                 execLog, reads, socks>>

\* case "game-start": GameEngine has no method start, the call throws a
\* TypeError that the handler's catch swallows before anything is emitted
RecvGameStart(e) ==
  /\ Receives(e, "game-start")
  /\ ends' = Popped(e)
  /\ emitted' = << >>
  /\ ev' = Event("game-start", Owner(e), e)
  /\ sentNow' = << >>
  /\ UNCHANGED <<up, nodeVars, socks>>

\* GameEngine.move(idx, role): the engine after the call
GameMoveOkAnyTurn(g, idx, role) ==
  /\ g.active
  /\ g.board[idx] = "-"
GameMoveOk(g, idx, role) ==
  /\ g.active
  /\ g.board[idx] = "-"
  /\ ~(role = g.myRole /\ g.turn # g.myRole)

GameMoveTurnOnly(g, idx, role) ==
  IF GameMoveOk(g, idx, role)
  THEN [g EXCEPT !.turn = IF role = "X" THEN "O" ELSE "X"]
  ELSE g
GameMove(g, idx, role) ==
  IF GameMoveOk(g, idx, role)
  THEN [g EXCEPT !.board[idx] = role, !.turn = IF role = "X" THEN "O" ELSE "X"]
  ELSE g

LineOrderSlip == <<<<0, 1, 2>>, <<3, 4, 5>>, <<6, 7, 8>>, <<0, 3, 6>>, <<1, 4, 7>>,
                   <<2, 5, 8>>, <<0, 4, 8>>, <<2, 4, 7>>>>
LineOrder == <<<<0, 1, 2>>, <<3, 4, 5>>, <<6, 7, 8>>, <<0, 3, 6>>, <<1, 4, 7>>,
               <<2, 5, 8>>, <<0, 4, 8>>, <<2, 4, 6>>>>

\* GameEngine.checkWin(): the mark of the first complete line, "DRAW", or "none"
CheckWin(board) ==
  LET won == {i \in 1..Len(LineOrder) :
                /\ board[LineOrder[i][1]] # "-"
                /\ board[LineOrder[i][1]] = board[LineOrder[i][2]]
                /\ board[LineOrder[i][1]] = board[LineOrder[i][3]]}
  IN IF won # {}
     THEN board[LineOrder[CHOOSE i \in won : \A j \in won : i <= j][1]]
     ELSE IF \A c \in 0..8 : board[c] # "-" THEN "DRAW" ELSE "none"

\* _checkWin()
AfterCheckWinStaysOn(g) == g
AfterCheckWin(g) == IF CheckWin(g.board) # "none" THEN [g EXCEPT !.active = FALSE] ELSE g
CheckWinLog(g) == IF CheckWin(g.board) # "none" THEN <<"log:GAME OVER">> ELSE << >>

\* case "game-move"
RecvGameMove(e) ==
  /\ Receives(e, "game-move")
  /\ LET n == Owner(e)
         payload == Head(ends[e].inbox).payload
         g1 == GameMove(game[n], payload.idx, payload.role)
     IN
     /\ game' = [game EXCEPT ![n] = AfterCheckWin(g1)]
     /\ emitted' = <<"game_update">> \o CheckWinLog(g1)
     /\ ev' = Event("game-move", n, e)
  /\ ends' = Popped(e)
  /\ sentNow' = << >>
  /\ UNCHANGED <<up, peers, conns, activeTarget, pendingShell, transfers, sinks,
                 running, execLog, reads, socks>>

\* the cases of the message handler's switch
KnownTypes == {"pair", "msg", "nudge", "shell-req", "shell-out", "file-offer",
               "file-end", "game-invite", "game-start", "game-move"}
\* a text that JSON.parse rejects
NotJson == Msg("not-json", NoPayload)

\* what a case emits before it reads a member of the missing payload:
\* case "msg" hands the payload to the "chat" listeners, every other case
\* reads payload first
BeforeThrow(type) == IF type = "msg" THEN <<"chat">> ELSE << >>

\* the message leaves the queue, the socket stays as it is
DropCloses(E, e) == Terminate([E EXCEPT ![e].inbox = Tail(@)], e)
Drop(E, e) == [E EXCEPT ![e].inbox = Tail(@)]

\* ws "message" with a text that is no JSON, has a type without a case, or
\* has no payload: JSON.parse or the first read of payload throws inside the
\* try block, or no case matches, and the catch is empty
RecvDropped(e) ==
  /\ e \in DOMAIN ends
  /\ Running(Owner(e))
  /\ ends[e].handled
  /\ ends[e].ready = "open"
  /\ ends[e].inbox # << >>
  /\ LET m == Head(ends[e].inbox) IN
     /\ m.type # "binary"
     /\ m.type \notin KnownTypes \/ m.payload = NoPayload
     /\ emitted' = IF m.type \in KnownTypes THEN BeforeThrow(m.type) ELSE << >>
     /\ ev' = [op |-> "dropped", node |-> Owner(e), end |-> e, type |-> m.type]
  /\ ends' = Drop(ends, e)
  /\ sentNow' = << >>
  /\ UNCHANGED <<up, nodeVars, socks>>

\* --------------------------------------------------------- local commands
\* the user's commands keep the peer's queue within MaxInbox
Room(e) == e \in DOMAIN ends /\ Len(ends[Other(e)].inbox) < MaxInbox

\* connList "select": #General, or the chat of a listed connection
SelectTarget(n, k) ==
  /\ Running(n)
  /\ k = General \/ MapHas(conns[n], k)
  /\ activeTarget' = [activeTarget EXCEPT ![n] =
                        IF k = General THEN General ELSE conns[n][k].meta.fromId]
  /\ ev' = Event("select", n, NoEnd)
  /\ sentNow' = << >>
  /\ emitted' = << >>
  /\ UNCHANGED <<up, peers, conns, pendingShell, transfers, sinks, game, running,
                 execLog, reads, socks, ends>>

\* conns.forEach(c => _send(c.ws, ...)): each entry has its own socket
RECURSIVE SendAllStops(_, _, _, _)
SendAllStops(E, C, keys, m) ==
  IF keys = {} THEN E
  ELSE LET k == CHOOSE x \in keys : \A y \in keys : x <= y
       IN IF E[Other(C[k].ws)].ready # "open" THEN E
          ELSE SendAllStops(Send(E, C[k].ws, m), C, keys \ {k}, m)

RECURSIVE SendAll(_, _, _, _)
SendAll(E, C, keys, m) ==
  IF keys = {} THEN E
  ELSE LET k == CHOOSE x \in keys : TRUE
       IN SendAll(Send(E, C[k].ws, m), C, keys \ {k}, m)

RECURSIVE SentAll(_, _, _, _)
SentAll(E, C, keys, m) ==
  IF keys = {} THEN << >>
  ELSE LET k == CHOOSE x \in keys : \A y \in keys : x <= y
       IN Sent(E, C[k].ws, m) \o SentAll(E, C, keys \ {k}, m)

ChatMsgPublic(n, text, isPm) ==
  Msg("msg", [fromId |-> Identity(n).id, name |-> Identity(n).username,
              text |-> text, isPm |-> FALSE])
ChatMsg(n, text, isPm) ==
  Msg("msg", [fromId |-> Identity(n).id, name |-> Identity(n).username,
              text |-> text, isPm |-> isPm])

\* processInput(text) for a text that is no command
SendChat(n, text) ==
  /\ Running(n)
  /\ IF activeTarget[n] = General
     THEN /\ \A k \in DOMAIN conns[n] : Room(conns[n][k].ws)
          /\ ends' = SendAll(ends, conns[n], DOMAIN conns[n], ChatMsg(n, text, FALSE))
          /\ sentNow' = SentAll(ends, conns[n], DOMAIN conns[n], ChatMsg(n, text, FALSE))
          /\ emitted' = <<"chat">>
          /\ UNCHANGED activeTarget
     ELSE IF MapHas(conns[n], activeTarget[n])
     THEN LET t == conns[n][activeTarget[n]] IN
          /\ Room(t.ws)
          /\ ends' = Send(ends, t.ws, ChatMsg(n, text, TRUE))
          /\ sentNow' = Sent(ends, t.ws, ChatMsg(n, text, TRUE))
          /\ emitted' = <<"chat">>
          /\ UNCHANGED activeTarget
     ELSE /\ activeTarget' = [activeTarget EXCEPT ![n] = General]
          /\ emitted' = <<"log:User gone. Switched to General.">>
          /\ sentNow' = << >>
          /\ UNCHANGED ends
  /\ ev' = Event("chat", n, NoEnd)
  /\ UNCHANGED <<up, peers, conns, pendingShell, transfers, sinks, game, running,
                 execLog, reads, socks>>

\* _sendNudge()
SendNudge(n) ==
  /\ Running(n)
  /\ IF ~MapHas(conns[n], activeTarget[n]) \/ activeTarget[n] = General
     THEN /\ emitted' = <<"log:Only DMs can be nudged.">>
          /\ sentNow' = << >>
          /\ UNCHANGED ends
     ELSE LET t == conns[n][activeTarget[n]]
              m == Msg("nudge", [fromName |-> Identity(n).username])
          IN
          /\ Room(t.ws)
          /\ ends' = Send(ends, t.ws, m)
          /\ sentNow' = Sent(ends, t.ws, m)
          /\ emitted' = <<"log:Nudged">>
  /\ ev' = Event("nudge-cmd", n, NoEnd)
  /\ UNCHANGED <<up, nodeVars, socks>>

\* _requestShell(cmd)
RequestShell(n, cmd) ==
  /\ Running(n)
  /\ IF ~MapHas(conns[n], activeTarget[n]) \/ activeTarget[n] = General
     THEN /\ emitted' = <<"log:Only DMs support remote shell.">>
          /\ sentNow' = << >>
          /\ UNCHANGED ends
     ELSE LET t == conns[n][activeTarget[n]]
              m == Msg("shell-req", [fromId |-> Identity(n).id,
                                     fromName |-> Identity(n).username, cmd |-> cmd])
          IN
          /\ Room(t.ws)
          /\ ends' = Send(ends, t.ws, m)
          /\ sentNow' = Sent(ends, t.ws, m)
          /\ emitted' = <<"log:Requesting to run">>
  /\ ev' = Event("exec-cmd", n, NoEnd)
  /\ UNCHANGED <<up, nodeVars, socks>>

\* what _approveShell() reports when nothing is pending
NoPendingSilent == << >>
NoPendingNotice == <<"log:No pending shell requests.">>

\* pendingShell after _approveShell()
ApproveKeepsPending(old) == old
ApproveClears(old) == NoShell

\* _approveShell(): exec(cmd, callback) starts the command at once; the
\* callback keeps the entry t looked up here
ApproveShell(n) ==
  /\ Running(n)
  /\ IF ~pendingShell[n].pending
     THEN /\ emitted' = NoPendingNotice
          /\ UNCHANGED <<pendingShell, running, execLog>>
     ELSE LET fromId == pendingShell[n].fromId
              cmd == pendingShell[n].cmd
              hasT == MapHas(conns[n], fromId)
          IN
          /\ Len(execLog[n]) < MaxExec
          /\ emitted' = <<"log:Executing">>
          /\ execLog' = [execLog EXCEPT ![n] = Append(@, cmd)]
          /\ running' = [running EXCEPT ![n] =
                           Append(@, [cmd |-> cmd, from |-> fromId, hasT |-> hasT,
                                      ws |-> IF hasT THEN conns[n][fromId].ws ELSE NoEnd])]
          /\ pendingShell' = [pendingShell EXCEPT ![n] = ApproveClears(@)]
  /\ ev' = Event("allow", n, NoEnd)
  /\ sentNow' = << >>
  /\ UNCHANGED <<up, peers, conns, activeTarget, transfers, sinks, game, reads,
                 socks, ends>>

RemoveAt(q, i) == [j \in 1..(Len(q) - 1) |-> IF j < i THEN q[j] ELSE q[j + 1]]

\* the payload the exec callback sends
ShellOut(err, stdout, stderr) ==
  LET output == IF err THEN stderr ELSE stdout
  IN Msg("shell-out", [output |-> IF output = "" THEN "Done (No Output)" ELSE output])

\* the callback of exec for the i-th running command
ExecFinish(n, i, err, stdout, stderr) ==
  /\ Running(n)
  /\ i \in 1..Len(running[n])
  /\ LET r == running[n][i]
         m == ShellOut(err, stdout, stderr)
     IN
     /\ IF r.hasT
        THEN /\ Room(r.ws)
             /\ ends' = Send(ends, r.ws, m)
             /\ sentNow' = Sent(ends, r.ws, m)
        ELSE /\ sentNow' = << >>
             /\ UNCHANGED ends
     /\ ev' = [op |-> "exec-done", node |-> n, end |-> r.ws, from |-> r.from]
  /\ running' = [running EXCEPT ![n] = RemoveAt(@, i)]
  /\ emitted' = <<"log:Execution finished.">>
  /\ UNCHANGED <<up, peers, conns, activeTarget, pendingShell, transfers, sinks, game,
                 execLog, reads, socks>>

\* _invite()
Invite(n) ==
  /\ Running(n)
  /\ IF MapHas(conns[n], activeTarget[n])
     THEN LET t == conns[n][activeTarget[n]]
              m == Msg("game-invite", [fromId |-> Identity(n).id,
                                       name |-> Identity(n).username])
          IN
          /\ Room(t.ws)
          /\ ends' = Send(ends, t.ws, m)
          /\ sentNow' = Sent(ends, t.ws, m)
          /\ emitted' = <<"log:Invite sent.">>
     ELSE /\ emitted' = << >>
          /\ sentNow' = << >>
          /\ UNCHANGED ends
  /\ ev' = Event("play", n, NoEnd)
  /\ UNCHANGED <<up, nodeVars, socks>>

\* _accept(): GameEngine has no method start, so with a session for
\* activeTarget the call throws out of the keypress handler and the process
\* dies; without one nothing happens
Accept(n) ==
  /\ Running(n)
  /\ IF MapHas(conns[n], activeTarget[n])
     THEN /\ up' = up \ {n}
          /\ ends' = Crashed(ends, n)
     ELSE UNCHANGED <<up, ends>>
  /\ ev' = Event("accept-cmd", n, NoEnd)
  /\ sentNow' = << >>
  /\ emitted' = << >>
  /\ UNCHANGED <<nodeVars, socks>>

\* ------------------------------------------------------------ Protocol
\* bytes of the header text JSON.stringify({ fileId }) and of other JSON texts
LBrace == 123
RBrace == 125
KeyFileId == 102
NullText == 110
Undefined == 0 - 1

U32BE(n) == <<(n \div 16777216) % 256, (n \div 65536) % 256, (n \div 256) % 256, n % 256>>
ReadU32LE(b) == b[4] * 16777216 + b[3] * 65536 + b[2] * 256 + b[1]
ReadU32BE(b) == b[1] * 16777216 + b[2] * 65536 + b[3] * 256 + b[4]

HeaderJson(fileId) == <<LBrace, KeyFileId, fileId, RBrace>>

\* JSON.parse of header bytes: an object (with or without fileId), null, or a
\* SyntaxError
ParseJson(txt) ==
  IF Len(txt) = 4 /\ txt[1] = LBrace /\ txt[2] = KeyFileId /\ txt[4] = RBrace
  THEN [kind |-> "object", fileId |-> txt[3]]
  ELSE IF txt = <<LBrace, RBrace>> THEN [kind |-> "object", fileId |-> Undefined]
  ELSE IF txt = <<NullText>> THEN [kind |-> "null", fileId |-> Undefined]
  ELSE [kind |-> "error", fileId |-> Undefined]

\* Protocol.createBinary(fileId, chunk)
CreateBinary(fileId, chunk) ==
  U32BE(Len(HeaderJson(fileId))) \o HeaderJson(fileId) \o chunk

\* Protocol.parseBinary(buf): null, or {header, data}
NoParse == [ok |-> FALSE, header |-> [kind |-> "error", fileId |-> Undefined], data |-> << >>]
ParseBinary(buf) ==
  IF Len(buf) < 4 THEN NoParse
  ELSE LET hLen == ReadU32BE(buf) IN
       IF Len(buf) < 4 + hLen THEN NoParse
       ELSE LET h == ParseJson(SubSeq(buf, 5, 4 + hLen)) IN
            IF h.kind = "error" THEN NoParse
            ELSE [ok |-> TRUE, header |-> h, data |-> SubSeq(buf, 5 + hLen, Len(buf))]

Frame(buf) == Msg("binary", [buf |-> buf])

\* ----------------------------------------------------- file transfer
\* the files on the sender's disk, as bytes; any other path does not exist
Disk == [f |-> <<1, 2, 3>>, e |-> << >>]
Paths == {"f", "e", "x"}
\* CONFIG.CHUNK_SIZE, scaled
ChunkSize == 2
Min(a, b) == IF a < b THEN a ELSE b

\* uuidv4(): a fresh id for every transfer of every node
NewFileId(n) == 10 * n + Len(reads[n]) + 1

\* stream.write(parsed.data) on the transfer of the frame's fileId, if any
FrameWriteAny(S, T, parsed) ==
  IF parsed.ok /\ Len(S) > 0
  THEN [S EXCEPT ![Len(S)].data = @ \o parsed.data]
  ELSE S
FrameWriteReplaces(S, T, parsed) ==
  IF parsed.ok /\ MapHas(T, parsed.header.fileId)
  THEN [S EXCEPT ![T[parsed.header.fileId]].data = parsed.data]
  ELSE S
FrameWrite(S, T, parsed) ==
  IF parsed.ok /\ MapHas(T, parsed.header.fileId)
  THEN [S EXCEPT ![T[parsed.header.fileId]].data = @ \o parsed.data]
  ELSE S

\* ws "message" with isBinary: a header that parses to null makes
\* parsed.header.fileId throw outside the handler's try block
RecvBinary(e) ==
  /\ Receives(e, "binary")
  /\ LET n == Owner(e)
         parsed == ParseBinary(Head(ends[e].inbox).payload.buf)
     IN
     /\ IF parsed.ok /\ parsed.header.kind = "null"
        THEN /\ up' = up \ {n}
             /\ ends' = Crashed(ends, n)
             /\ UNCHANGED sinks
        ELSE /\ sinks' = [sinks EXCEPT ![n] = FrameWrite(@, transfers[n], parsed)]
             /\ ends' = Popped(e)
             /\ UNCHANGED up
     /\ ev' = [op |-> "binary", node |-> n, end |-> e, parsed |-> parsed]
  /\ sentNow' = << >>
  /\ emitted' = << >>
  /\ UNCHANGED <<peers, conns, activeTarget, pendingShell, transfers, game, running,
                 execLog, reads, socks>>

\* _sendFile(filePath): the offer is sent and a read stream is opened on the
\* file; the conns entry of activeTarget is captured for the stream's events
SendFile(n, path) ==
  /\ Running(n)
  /\ IF path \notin DOMAIN Disk
     THEN /\ emitted' = <<"log:File not found.">>
          /\ sentNow' = << >>
          /\ UNCHANGED <<ends, reads>>
     ELSE IF activeTarget[n] = General \/ ~MapHas(conns[n], activeTarget[n])
     THEN /\ emitted' = <<"log:Select a DM to send files.">>
          /\ sentNow' = << >>
          /\ UNCHANGED <<ends, reads>>
     ELSE LET target == conns[n][activeTarget[n]]
              fileId == NewFileId(n)
              offer == Msg("file-offer", [fileId |-> fileId, filename |-> path,
                                          size |-> Len(Disk[path]),
                                          fromId |-> Identity(n).id])
          IN
          /\ Len(reads[n]) < MaxSends
          /\ Room(target.ws)
          /\ ends' = Send(ends, target.ws, offer)
          /\ sentNow' = Sent(ends, target.ws, offer)
          /\ reads' = [reads EXCEPT ![n] =
                         Append(@, [fileId |-> fileId, ws |-> target.ws,
                                    filename |-> path, left |-> Disk[path],
                                    done |-> FALSE])]
          /\ emitted' = << >>
  /\ ev' = [op |-> "send", node |-> n, end |-> NoEnd, path |-> path]
  /\ UNCHANGED <<up, peers, conns, activeTarget, pendingShell, transfers, sinks, game,
                 running, execLog, socks>>

\* the chunk a "data" event carries: up to highWaterMark bytes
NextChunkWhole(left) == left
NextChunk(left) == SubSeq(left, 1, Min(ChunkSize, Len(left)))

\* stream "data": the chunk is sent if the captured socket is OPEN
ReadData(n, i) ==
  /\ Running(n)
  /\ i \in 1..Len(reads[n])
  /\ ~reads[n][i].done
  /\ reads[n][i].left # << >>
  /\ LET r == reads[n][i]
         chunk == NextChunk(r.left)
         m == Frame(CreateBinary(r.fileId, chunk))
     IN
     /\ Room(r.ws)
     /\ ends' = Send(ends, r.ws, m)
     /\ sentNow' = Sent(ends, r.ws, m)
     /\ reads' = [reads EXCEPT ![n][i].left = SubSeq(r.left, Len(chunk) + 1, Len(r.left))]
     /\ ev' = [op |-> "read-data", node |-> n, end |-> r.ws, stream |-> i]
  /\ emitted' = << >>
  /\ UNCHANGED <<up, peers, conns, activeTarget, pendingShell, transfers, sinks, game,
                 running, execLog, socks>>

\* stream "end": file-end is sent
ReadEnd(n, i) ==
  /\ Running(n)
  /\ i \in 1..Len(reads[n])
  /\ ~reads[n][i].done
  /\ reads[n][i].left = << >>
  /\ LET r == reads[n][i]
         m == Msg("file-end", [fileId |-> r.fileId])
     IN
     /\ Room(r.ws)
     /\ ends' = Send(ends, r.ws, m)
     /\ sentNow' = Sent(ends, r.ws, m)
     /\ reads' = [reads EXCEPT ![n][i].done = TRUE]
     /\ ev' = [op |-> "read-end", node |-> n, end |-> r.ws, stream |-> i]
  /\ emitted' = <<"log:Sent file">>
  /\ UNCHANGED <<up, peers, conns, activeTarget, pendingShell, transfers, sinks, game,
                 running, execLog, socks>>

\* ----------------------------------------------------------- the game
\* move(idx): the press of board button idx
Move(n, idx) ==
  /\ Running(n)
  /\ LET g == game[n]
         role == g.myRole
         g1 == GameMove(g, idx, role)
     IN
     IF GameMoveOk(g, idx, role)
     THEN /\ game' = [game EXCEPT ![n] = AfterCheckWin(g1)]
          /\ emitted' = <<"game_update">> \o CheckWinLog(g1)
          /\ IF MapHas(conns[n], activeTarget[n])
             THEN LET t == conns[n][activeTarget[n]]
                      m == Msg("game-move", [idx |-> idx, role |-> role])
                  IN
                  /\ Room(t.ws)
                  /\ ends' = Send(ends, t.ws, m)
                  /\ sentNow' = Sent(ends, t.ws, m)
             ELSE /\ sentNow' = << >>
                  /\ UNCHANGED ends
     ELSE /\ emitted' = << >>
          /\ sentNow' = << >>
          /\ UNCHANGED <<game, ends>>
  /\ ev' = [op |-> "move", node |-> n, end |-> NoEnd, idx |-> idx]
  /\ UNCHANGED <<up, peers, conns, activeTarget, pendingShell, transfers, sinks,
                 running, execLog, reads, socks>>

\* GameEngine.start(role) is called by _accept and by case "game-start" but
\* the class does not define it. The definitions below supply it as the
\* accept transition of the game's description has it (board reset, role
\* set, state Active), to examine move and the relay of moves, which no run
\* of the program as it is can reach.
GameStart(g, role) ==
  [active |-> TRUE, board |-> EmptyBoard, turn |-> "X", myRole |-> role]

\* _accept() with start supplied
AcceptStarted(n) ==
  /\ Running(n)
  /\ IF MapHas(conns[n], activeTarget[n])
     THEN LET t == conns[n][activeTarget[n]]
              m == Msg("game-start", [role |-> "X"])
          IN
          /\ Room(t.ws)
          /\ game' = [game EXCEPT ![n] = GameStart(@, "O")]
          /\ ends' = Send(ends, t.ws, m)
          /\ sentNow' = Sent(ends, t.ws, m)
          /\ emitted' = <<"game_update", "log:Game accepted.">>
     ELSE /\ emitted' = << >>
          /\ sentNow' = << >>
          /\ UNCHANGED <<game, ends>>
  /\ ev' = Event("accept-cmd", n, NoEnd)
  /\ UNCHANGED <<up, peers, conns, activeTarget, pendingShell, transfers, sinks,
                 running, execLog, reads, socks>>

\* case "game-start" with start supplied
RecvGameStarted(e) ==
  /\ Receives(e, "game-start")
  /\ game' = [game EXCEPT ![Owner(e)] = GameStart(@, Head(ends[e].inbox).payload.role)]
  /\ ends' = Popped(e)
  /\ emitted' = <<"game_update", "log:Game Started">>
  /\ ev' = Event("game-start", Owner(e), e)
  /\ sentNow' = << >>
  /\ UNCHANGED <<up, peers, conns, activeTarget, pendingShell, transfers, sinks,
                 running, execLog, reads, socks>>

\* a peer that does not run this program (any WebSocket client may connect
\* and send): message m arrives on end e
PeerSays(e, m) ==
  /\ e \in DOMAIN ends
  /\ Quiet
  /\ ends[e].ready = "open"
  /\ ends[e].handled
  /\ ends[Other(e)].ready = "open"
  /\ Owner(Other(e)) \in up
  /\ Len(ends[e].inbox) < MaxInbox
  /\ ends' = [ends EXCEPT ![e].inbox = Append(@, m)]
  /\ ev' = Event("wire", 0, e)
  /\ sentNow' = << >>
  /\ emitted' = << >>
  /\ UNCHANGED <<up, nodeVars, socks>>

\* ------------------------------------------------------- specifications
Ends == (1..MaxSocks) \X {Client, Server}

\* the first announcement of another node's service
FirstUp(n, m) == m # n /\ ~MapHas(peers[n], Identity(m).id)

\* the two nodes of the runs that need one pair of peers
Duo == {1, 2}

\* sessions: discovery, dialling, pairing, heartbeat, teardown
NextSession ==
  \/ \E n \in Duo, m \in Duo : FirstUp(n, m) /\ DiscoveryUp(n, Service(m))
  \/ \E n \in Duo, id \in Duo : Len(socks) < MaxSocks /\ Connect(n, id)
  \/ \E t \in 1..MaxSocks : ServerAccept(t)
  \/ \E t \in 1..MaxSocks : ClientOpen(t)
  \/ \E e \in Ends : RecvPair(e)
  \/ \E e \in Ends : Close(e)
  \/ \E n \in Duo : Tick(n)
  \/ \E e \in Ends : Pong(e)

SpecSession == Init /\ [][NextSession]_vars

\* the consent flow around exec: node 1 dials and asks, any node approves
Askers == {1}

NextExec ==
  \/ \E n \in Askers, m \in Duo : FirstUp(n, m) /\ DiscoveryUp(n, Service(m))
  \/ \E n \in Askers, id \in Duo : Len(socks) < MaxExecSocks /\ Connect(n, id)
  \/ \E t \in 1..MaxExecSocks : ServerAccept(t)
  \/ \E t \in 1..MaxExecSocks : ClientOpen(t)
  \/ \E e \in Ends : RecvPair(e)
  \/ \E e \in Ends : Close(e)
  \/ \E n \in Askers : Exit(n)
  \/ \E n \in Askers, k \in Duo \cup {General} : SelectTarget(n, k)
  \/ \E n \in Askers, cmd \in Cmds : RequestShell(n, cmd)
  \/ \E e \in Ends : RecvShellReq(e)
  \/ \E n \in Duo : ApproveShell(n)
  \/ \E n \in Duo, i \in 1..MaxExec, err \in BOOLEAN, stdout \in Outputs,
        stderr \in Outputs : ExecFinish(n, i, err, stdout, stderr)
  \/ \E e \in Ends : RecvShellOut(e)

SpecExec == Init /\ [][NextExec]_vars

\* the consent flow when the asker dials its peer again while a command runs
\* and the approver's heartbeat runs
NextRedial ==
  \/ \E n \in Askers, m \in Duo : FirstUp(n, m) /\ DiscoveryUp(n, Service(m))
  \/ \E n \in Askers, id \in Duo : Len(socks) < MaxSocks /\ Connect(n, id)
  \/ \E t \in 1..MaxSocks : ServerAccept(t)
  \/ \E t \in 1..MaxSocks : ClientOpen(t)
  \/ \E e \in Ends : RecvPair(e)
  \/ \E e \in Ends : Close(e)
  \/ \E n \in Duo \ Askers : Tick(n)
  \/ \E n \in Askers, k \in Duo : SelectTarget(n, k)
  \/ \E n \in Askers : RequestShell(n, "ls")
  \/ \E e \in Ends : RecvShellReq(e)
  \/ \E n \in Duo \ Askers : ApproveShell(n)
  \/ \E n \in Duo, i \in 1..MaxExec, err \in BOOLEAN, stdout \in Outputs,
        stderr \in Outputs : ExecFinish(n, i, err, stdout, stderr)
  \/ \E e \in Ends : RecvShellOut(e)

SpecRedial == Init /\ [][NextRedial]_vars

\* what a peer that is not this program puts on the wire here: the control
\* messages this program's own commands do not produce in these runs
ForeignMsgs ==
  {Msg("file-offer", [fileId |-> 1, filename |-> "f", size |-> 1, fromId |-> 1]),
   Msg("file-end", [fileId |-> 1]),
   Msg("game-start", [role |-> "X"]),
   Msg("game-move", [idx |-> 0, role |-> "X"])}

OffersIn(e) == Cardinality({i \in 1..Len(ends[e].inbox) : ends[e].inbox[i].type = "file-offer"})
FitsSinks(e, m) ==
  /\ e \in DOMAIN ends
  /\ Owner(e) \notin Askers
  /\ m.type = "file-offer" => Len(sinks[Owner(e)]) + OffersIn(e) < MaxSinks

\* routing of inbound messages and the chat target: node 1 dials node 2 once,
\* targets it, nudges, asks for a command and invites, and may exit; the user
\* of node 2 picks targets and chats
NextTarget ==
  \/ \E n \in Askers, m \in Duo : FirstUp(n, m) /\ DiscoveryUp(n, Service(m))
  \/ \E n \in Askers, id \in Duo : Len(socks) < MaxExecSocks /\ Connect(n, id)
  \/ \E t \in 1..MaxExecSocks : ServerAccept(t)
  \/ \E t \in 1..MaxExecSocks : ClientOpen(t)
  \/ \E e \in Ends : RecvPair(e)
  \/ \E e \in Ends : Close(e)
  \/ \E n \in Askers : Exit(n)
  \/ \E n \in Askers, k \in Duo \ Askers : SelectTarget(n, k)
  \/ \E n \in Duo \ Askers, k \in Duo \cup {General} : SelectTarget(n, k)
  \/ \E n \in Duo \ Askers, text \in Texts : SendChat(n, text)
  \/ \E n \in Askers : SendNudge(n)
  \/ \E n \in Askers : RequestShell(n, "ls")
  \/ \E n \in Askers : Invite(n)
  \/ \E e \in Ends, m \in ForeignMsgs : FitsSinks(e, m) /\ PeerSays(e, m)
  \/ \E e \in Ends : RecvMsg(e)
  \/ \E e \in Ends : RecvNudge(e)
  \/ \E e \in Ends : RecvShellReq(e)
  \/ \E e \in Ends : RecvFileOffer(e)
  \/ \E e \in Ends : RecvFileEnd(e)
  \/ \E e \in Ends : RecvGameInvite(e)
  \/ \E e \in Ends : RecvGameStart(e)
  \/ \E e \in Ends : RecvGameMove(e)

SpecTarget == Init /\ [][NextTarget]_vars

\* what a peer that is not this program may send on a paired connection: a
\* pairing message under another id, a chat message under another name
Stranger == 4
WireMsgs ==
  {Msg("pair", [fromId |-> Stranger, name |-> 10 + Stranger, ack |-> a]) : a \in BOOLEAN}
  \cup {Msg("msg", [fromId |-> Stranger, name |-> 10 + Stranger, text |-> "hi", isPm |-> TRUE])}

AtAnswerer(e) == e \in DOMAIN ends /\ Owner(e) \notin Askers

\* one connection dialled by node 1, which chats, may exit, and may also send
\* WireMsgs to its peer (a pairing message is taken up when the reply it may
\* cause fits the peer's queue)
NextWire ==
  \/ \E n \in Askers, m \in Duo : FirstUp(n, m) /\ DiscoveryUp(n, Service(m))
  \/ \E n \in Askers, id \in Duo : Len(socks) < MaxExecSocks /\ Connect(n, id)
  \/ \E t \in 1..MaxExecSocks : ServerAccept(t)
  \/ \E t \in 1..MaxExecSocks : ClientOpen(t)
  \/ \E e \in Ends : Room(e) /\ RecvPair(e)
  \/ \E e \in Ends : Close(e)
  \/ \E n \in Askers : Exit(n)
  \/ \E n \in Askers, text \in Texts : SendChat(n, text)
  \/ \E e \in Ends, m \in WireMsgs : AtAnswerer(e) /\ PeerSays(e, m)
  \/ \E e \in Ends : RecvMsg(e)

SpecWire == Init /\ [][NextWire]_vars

\* chat fan-out: nodes 1 and 3 each dial node 2 once and may exit; the user of
\* node 2 picks targets and chats
Hub == 2
Callers == Nodes \ {Hub}
NotDialled(n) == \A t \in 1..Len(socks) : socks[t].from # n

NextChat ==
  \/ \E n \in Callers : FirstUp(n, Hub) /\ DiscoveryUp(n, Service(Hub))
  \/ \E n \in Callers : NotDialled(n) /\ Connect(n, Identity(Hub).id)
  \/ \E t \in 1..MaxSocks : ServerAccept(t)
  \/ \E t \in 1..MaxSocks : ClientOpen(t)
  \/ \E e \in Ends : RecvPair(e)
  \/ \E e \in Ends : Close(e)
  \/ \E n \in Callers : Exit(n)
  \/ \E k \in Nodes \cup {General} : SelectTarget(Hub, k)
  \/ \E text \in Texts : SendChat(Hub, text)
  \/ \E e \in Ends : RecvMsg(e)

SpecChat == Init /\ [][NextChat]_vars

\* frames a peer may send outside any transfer it has open: for an id that
\* was never offered, and, behind the file-end on the socket that carried it,
\* for the id of a transfer it has already ended
NeverOffered == 99
StrayFrames(e) ==
  {Frame(CreateBinary(NeverOffered, <<9>>))}
  \cup {Frame(CreateBinary(reads[Owner(Other(e))][i].fileId, <<9>>)) :
          i \in {j \in 1..Len(reads[Owner(Other(e))]) :
                   /\ reads[Owner(Other(e))][j].done
                   /\ reads[Owner(Other(e))][j].ws = Other(e)}}

\* file transfer: node 1 dials node 2, targets it (or "general" again) and
\* sends files, whose streams run side by side; node 2 receives
NextFile ==
  \/ \E n \in Askers, m \in Duo : FirstUp(n, m) /\ DiscoveryUp(n, Service(m))
  \/ \E n \in Askers, id \in Duo : Len(socks) < MaxExecSocks /\ Connect(n, id)
  \/ \E t \in 1..MaxExecSocks : ServerAccept(t)
  \/ \E t \in 1..MaxExecSocks : ClientOpen(t)
  \/ \E e \in Ends : RecvPair(e)
  \/ \E e \in Ends : Close(e)
  \/ \E n \in Duo \ Askers : Exit(n)
  \/ \E n \in Askers, k \in Duo \cup {General} : SelectTarget(n, k)
  \/ \E n \in Askers, path \in Paths : SendFile(n, path)
  \/ \E n \in Askers, i \in 1..MaxSends : ReadData(n, i)
  \/ \E n \in Askers, i \in 1..MaxSends : ReadEnd(n, i)
  \/ \E e \in Ends : AtAnswerer(e) /\ \E m \in StrayFrames(e) : PeerSays(e, m)
  \/ \E e \in Ends : RecvFileOffer(e)
  \/ \E e \in Ends : RecvBinary(e)
  \/ \E e \in Ends : RecvFileEnd(e)

SpecFile == Init /\ [][NextFile]_vars

\* the direct-only commands: node 1 dials node 2, targets it or "general",
\* and sends files, nudges, asks for a command, invites and accepts; node 2
\* handles what arrives and may exit
NextDirect ==
  \/ \E n \in Askers, m \in Duo : FirstUp(n, m) /\ DiscoveryUp(n, Service(m))
  \/ \E n \in Askers, id \in Duo : Len(socks) < MaxExecSocks /\ Connect(n, id)
  \/ \E t \in 1..MaxExecSocks : ServerAccept(t)
  \/ \E t \in 1..MaxExecSocks : ClientOpen(t)
  \/ \E e \in Ends : RecvPair(e)
  \/ \E e \in Ends : Close(e)
  \/ \E n \in Duo \ Askers : Exit(n)
  \/ \E n \in Askers, k \in Duo \cup {General} : SelectTarget(n, k)
  \/ \E n \in Askers, path \in Paths : SendFile(n, path)
  \/ \E n \in Askers, i \in 1..MaxSends : ReadData(n, i)
  \/ \E n \in Askers, i \in 1..MaxSends : ReadEnd(n, i)
  \/ \E n \in Askers : SendNudge(n)
  \/ \E n \in Askers : RequestShell(n, "ls")
  \/ \E n \in Askers : Invite(n)
  \/ \E n \in Askers : Accept(n)
  \/ \E e \in Ends : RecvFileOffer(e)
  \/ \E e \in Ends : RecvBinary(e)
  \/ \E e \in Ends : RecvFileEnd(e)
  \/ \E e \in Ends : RecvNudge(e)
  \/ \E e \in Ends : RecvShellReq(e)
  \/ \E e \in Ends : RecvGameInvite(e)

SpecDirect == Init /\ [][NextDirect]_vars

\* file messages of a peer that is not this program: offers (also repeated
\* under one fileId), a frame and the end of that transfer, and frames that
\* are too short, declare more header than they carry, carry a header that
\* is no JSON text, an object without fileId, or the JSON text null
PeerFileMsgs ==
  {Msg("file-offer", [fileId |-> 1, filename |-> "f", size |-> 1, fromId |-> 1]),
   Msg("file-end", [fileId |-> 1]),
   Frame(CreateBinary(1, <<9>>)),
   Frame(<<0, 0>>),
   Frame(U32BE(9) \o <<LBrace>>),
   Frame(U32BE(1) \o <<LBrace>> \o <<9>>),
   Frame(U32BE(2) \o <<LBrace, RBrace>> \o <<9>>),
   Frame(U32BE(1) \o <<NullText>> \o <<9>>)}

RECURSIVE Written(_)
Written(S) == IF S = << >> THEN 0 ELSE Len(Head(S).data) + Written(Tail(S))
FramesIn(e) == Cardinality({i \in 1..Len(ends[e].inbox) : ends[e].inbox[i].type = "binary"})
FitsOffers(e, m) ==
  /\ e \in DOMAIN ends
  /\ m.type = "file-offer" => Len(sinks[Owner(e)]) + OffersIn(e) < MaxOffers
  /\ m.type = "binary" => Written(sinks[Owner(e)]) + FramesIn(e) < MaxFrames

\* reception of files: node 1 dials node 2 and may exit; PeerFileMsgs arrive
\* at node 2 on that connection
NextFrames ==
  \/ \E n \in Askers, m \in Duo : FirstUp(n, m) /\ DiscoveryUp(n, Service(m))
  \/ \E n \in Askers, id \in Duo : Len(socks) < MaxExecSocks /\ Connect(n, id)
  \/ \E t \in 1..MaxExecSocks : ServerAccept(t)
  \/ \E t \in 1..MaxExecSocks : ClientOpen(t)
  \/ \E e \in Ends : RecvPair(e)
  \/ \E e \in Ends : Close(e)
  \/ \E n \in Askers : Exit(n)
  \/ \E e \in Ends, m \in PeerFileMsgs : AtAnswerer(e) /\ FitsOffers(e, m) /\ PeerSays(e, m)
  \/ \E e \in Ends : RecvFileOffer(e)
  \/ \E e \in Ends : RecvBinary(e)
  \/ \E e \in Ends : RecvFileEnd(e)

SpecFrames == Init /\ [][NextFrames]_vars

\* the framing functions on their own: any fileId of FileIds and any chunk of
\* at most MaxChunk bytes is encoded, and the frame is then decoded
FileIds == {1, 11, 255}
ChunkBytes == {0, 9, RBrace}
RECURSIVE SeqsUpTo(_, _)
SeqsUpTo(B, k) ==
  IF k = 0 THEN {<< >>}
  ELSE LET shorter == SeqsUpTo(B, k - 1) IN
       shorter \cup {Append(q, b) : q \in shorter, b \in B}
Chunks == SeqsUpTo(ChunkBytes, MaxChunk)

Encode(fileId, chunk) ==
  /\ ev.op \in {"init", "decode"}
  /\ ev' = [op |-> "encode", node |-> 0, end |-> NoEnd, fileId |-> fileId,
            chunk |-> chunk, buf |-> CreateBinary(fileId, chunk)]
  /\ sentNow' = << >>
  /\ emitted' = << >>
  /\ UNCHANGED <<up, nodeVars, socks, ends>>

Decode ==
  /\ ev.op = "encode"
  /\ ev' = [op |-> "decode", node |-> 0, end |-> NoEnd, fileId |-> ev.fileId,
            chunk |-> ev.chunk, parsed |-> ParseBinary(ev.buf)]
  /\ sentNow' = << >>
  /\ emitted' = << >>
  /\ UNCHANGED <<up, nodeVars, socks, ends>>

NextCodec ==
  \/ \E fileId \in FileIds, chunk \in Chunks : Encode(fileId, chunk)
  \/ Decode

SpecCodec == Init /\ [][NextCodec]_vars

\* texts of a peer that is not this program: no JSON, a type the switch has
\* no case for, and every known type without its payload
BadTexts ==
  {NotJson, Msg("bogus", [x |-> 1])} \cup {Msg(type, NoPayload) : type \in KnownTypes}

\* node 1 dials node 2 once, invites it and asks it for a command, and may
\* exit; BadTexts arrive at node 2 between the messages of node 1
NextBadText ==
  \/ \E n \in Askers, m \in Duo : FirstUp(n, m) /\ DiscoveryUp(n, Service(m))
  \/ \E n \in Askers, id \in Duo : Len(socks) < MaxExecSocks /\ Connect(n, id)
  \/ \E t \in 1..MaxExecSocks : ServerAccept(t)
  \/ \E t \in 1..MaxExecSocks : ClientOpen(t)
  \/ \E e \in Ends : RecvPair(e)
  \/ \E e \in Ends : Close(e)
  \/ \E n \in Askers : Exit(n)
  \/ \E n \in Askers, k \in Duo \ Askers : SelectTarget(n, k)
  \/ \E n \in Askers : Room(<<1, Client>>) /\ RequestShell(n, "ls")
  \/ \E n \in Askers : Room(<<1, Client>>) /\ Invite(n)
  \/ \E e \in Ends, m \in BadTexts : AtAnswerer(e) /\ PeerSays(e, m)
  \/ \E e \in Ends : RecvShellReq(e)
  \/ \E e \in Ends : RecvGameInvite(e)
  \/ \E e \in Ends : RecvDropped(e)

SpecBadText == Init /\ [][NextBadText]_vars

\* dialling: node 1 learns of node 2 and dials it, also after node 2 has
\* gone; node 1 picks targets and chats
NextDial ==
  \/ \E n \in Askers, m \in Duo : FirstUp(n, m) /\ DiscoveryUp(n, Service(m))
  \/ \E n \in Askers, id \in Duo : Len(socks) < MaxSocks /\ Connect(n, id)
  \/ \E n \in Askers, id \in Duo : Len(socks) < MaxSocks /\ ConnectDown(n, id)
  \/ \E t \in 1..MaxSocks : ServerAccept(t)
  \/ \E t \in 1..MaxSocks : ClientOpen(t)
  \/ \E t \in 1..MaxSocks : DialError(t)
  \/ \E e \in Ends : RecvPair(e)
  \/ \E e \in Ends : Close(e)
  \/ \E n \in Duo \ Askers : Exit(n)
  \/ \E n \in Askers, k \in Duo \cup {General} : SelectTarget(n, k)
  \/ \E n \in Askers, text \in Texts : SendChat(n, text)
  \/ \E e \in Ends : RecvMsg(e)

SpecDial == Init /\ [][NextDial]_vars

\* the cells the players press in these runs, and game messages of a peer
\* that is not this program
PlayCells == {0, 1, 2, 3, 4}
Roles == {"X", "O"}
GameMsgs ==
  {Msg("game-start", [role |-> r]) : r \in Roles}
  \cup {Msg("game-move", [idx |-> 0, role |-> r]) : r \in Roles}

\* the game as the program plays it: node 1 dials node 2, targets it and
\* invites; node 2 accepts; both press cells; GameMsgs may arrive at node 1
NextPlay ==
  \/ \E n \in Askers, m \in Duo : FirstUp(n, m) /\ DiscoveryUp(n, Service(m))
  \/ \E n \in Askers, id \in Duo : Len(socks) < MaxExecSocks /\ Connect(n, id)
  \/ \E t \in 1..MaxExecSocks : ServerAccept(t)
  \/ \E t \in 1..MaxExecSocks : ClientOpen(t)
  \/ \E e \in Ends : RecvPair(e)
  \/ \E e \in Ends : Close(e)
  \/ \E n \in Askers, k \in Duo \ Askers : SelectTarget(n, k)
  \/ \E n \in Askers : Invite(n)
  \/ \E e \in Ends : RecvGameInvite(e)
  \/ \E n \in Duo : Accept(n)
  \/ \E n \in Duo, idx \in PlayCells : Move(n, idx)
  \/ \E e \in Ends, m \in GameMsgs : ~AtAnswerer(e) /\ PeerSays(e, m)
  \/ \E e \in Ends : RecvGameStart(e)
  \/ \E e \in Ends : RecvGameMove(e)

SpecPlay == Init /\ [][NextPlay]_vars

\* the game with start supplied: node 1 dials node 2, targets it (or
\* "general" again) and invites until it has a role; node 2 accepts while it
\* has no game going; both press cells
NextGame ==
  \/ \E n \in Askers, m \in Duo : FirstUp(n, m) /\ DiscoveryUp(n, Service(m))
  \/ \E n \in Askers, id \in Duo : Len(socks) < MaxExecSocks /\ Connect(n, id)
  \/ \E t \in 1..MaxExecSocks : ServerAccept(t)
  \/ \E t \in 1..MaxExecSocks : ClientOpen(t)
  \/ \E e \in Ends : RecvPair(e)
  \/ \E n \in Askers, k \in (Duo \ Askers) \cup {General} : SelectTarget(n, k)
  \/ \E n \in Askers : game[n].myRole = "-" /\ Invite(n)
  \/ \E e \in Ends : RecvGameInvite(e)
  \/ \E n \in Duo \ Askers : ~game[n].active /\ AcceptStarted(n)
  \/ \E n \in Duo, idx \in PlayCells : Move(n, idx)
  \/ \E e \in Ends : RecvGameStarted(e)
  \/ \E e \in Ends : RecvGameMove(e)

SpecGame == Init /\ [][NextGame]_vars

\* the same game, with game-move messages of a peer that is not this
\* program arriving at node 1
MoveMsgs == {Msg("game-move", [idx |-> 0, role |-> r]) : r \in Roles}

NextGameWire ==
  \/ \E n \in Askers, m \in Duo : FirstUp(n, m) /\ DiscoveryUp(n, Service(m))
  \/ \E n \in Askers, id \in Duo : Len(socks) < MaxExecSocks /\ Connect(n, id)
  \/ \E t \in 1..MaxExecSocks : ServerAccept(t)
  \/ \E t \in 1..MaxExecSocks : ClientOpen(t)
  \/ \E e \in Ends : RecvPair(e)
  \/ \E n \in Askers, k \in Duo \ Askers : SelectTarget(n, k)
  \/ \E n \in Askers : game[n].myRole = "-" /\ Invite(n)
  \/ \E e \in Ends : RecvGameInvite(e)
  \/ \E n \in Duo \ Askers : ~game[n].active /\ AcceptStarted(n)
  \/ \E n \in Duo, idx \in PlayCells : Move(n, idx)
  \/ \E e \in Ends, m \in MoveMsgs : ~AtAnswerer(e) /\ PeerSays(e, m)
  \/ \E e \in Ends : RecvGameStarted(e)
  \/ \E e \in Ends : RecvGameMove(e)

SpecGameWire == Init /\ [][NextGameWire]_vars

\* checkWin on its own: it is called once, on any board of nine cells
Boards == [0..8 -> {"-", "X", "O"}]

CheckBoard(board) ==
  /\ ev.op = "init"
  /\ ev' = [op |-> "check", node |-> 0, end |-> NoEnd, board |-> board,
            result |-> CheckWin(board)]
  /\ sentNow' = << >>
  /\ emitted' = << >>
  /\ UNCHANGED <<up, nodeVars, socks, ends>>

NextWin == \E board \in Boards : CheckBoard(board)

SpecWin == Init /\ [][NextWin]_vars

\* whole games, to a win or a full board: as NextGame, with every cell
\* pressed and node 1's target kept on node 2
Cells == 0..8

NextOver ==
  \/ \E n \in Askers, m \in Duo : FirstUp(n, m) /\ DiscoveryUp(n, Service(m))
  \/ \E n \in Askers, id \in Duo : Len(socks) < MaxExecSocks /\ Connect(n, id)
  \/ \E t \in 1..MaxExecSocks : ServerAccept(t)
  \/ \E t \in 1..MaxExecSocks : ClientOpen(t)
  \/ \E e \in Ends : RecvPair(e)
  \/ \E n \in Askers, k \in Duo \ Askers : SelectTarget(n, k)
  \/ \E n \in Askers : game[n].myRole = "-" /\ Invite(n)
  \/ \E e \in Ends : RecvGameInvite(e)
  \/ \E n \in Duo \ Askers : ~game[n].active /\ AcceptStarted(n)
  \/ \E n \in Duo, idx \in Cells : Move(n, idx)
  \/ \E e \in Ends : RecvGameStarted(e)
  \/ \E e \in Ends : RecvGameMove(e)

SpecOver == Init /\ [][NextOver]_vars

\* discovery at node 1 while it dials: every service may be announced and
\* withdrawn in any order, under its published data or after a restart under
\* another name and port, and with the txt record's id missing
Renamed(m) == [Service(m) EXCEPT !.name = 20 + m, !.port = 9100 + m]
NoId(m) == [Service(m) EXCEPT !.id = Null]
Anns == {Service(m) : m \in Nodes} \cup {Renamed(m) : m \in Nodes}
          \cup {NoId(m) : m \in Nodes \ Askers}

NextDiscovery ==
  \/ \E n \in Askers, s \in Anns : DiscoveryUp(n, s)
  \/ \E n \in Askers, s \in Anns : DiscoveryDown(n, s)
  \/ \E n \in Askers, id \in Nodes \ Askers : Len(socks) < MaxExecSocks /\ Connect(n, id)
  \/ \E t \in 1..MaxExecSocks : ServerAccept(t)
  \/ \E t \in 1..MaxExecSocks : ClientOpen(t)
  \/ \E e \in Ends : RecvPair(e)

SpecDiscovery == Init /\ [][NextDiscovery]_vars

\* traffic ahead of the pairing: node 1 dials node 2, and the far side of
\* the connection may send application messages to node 1 at any time, also
\* before node 1 has handled a pairing message on that transport
EarlyMsgs ==
  {Msg("msg", [fromId |-> 2, name |-> 12, text |-> "hi", isPm |-> FALSE]),
   Msg("shell-req", [fromId |-> 2, cmd |-> "rm"]),
   Msg("file-offer", [fileId |-> 1, filename |-> "f", size |-> 1, fromId |-> 2])}

NextUnpaired ==
  \/ \E n \in Askers, m \in Duo : FirstUp(n, m) /\ DiscoveryUp(n, Service(m))
  \/ \E n \in Askers, id \in Duo : Len(socks) < MaxExecSocks /\ Connect(n, id)
  \/ \E t \in 1..MaxExecSocks : ServerAccept(t)
  \/ \E t \in 1..MaxExecSocks : ClientOpen(t)
  \/ \E e \in Ends : RecvPair(e)
  \/ \E e \in Ends, m \in EarlyMsgs : ~AtAnswerer(e) /\ FitsOffers(e, m) /\ PeerSays(e, m)
  \/ \E e \in Ends : RecvMsg(e)
  \/ \E e \in Ends : RecvShellReq(e)
  \/ \E e \in Ends : RecvFileOffer(e)

SpecUnpaired == Init /\ [][NextUnpaired]_vars

\* two Sessions at one receiver: nodes 1 and 3 each dial the hub once and
\* pair. The far side of node 1's Session offers a file and sends its frames
\* and its end; the far side of node 3's Session offers nothing and sends
\* frames and a file-end that carry the same fileId
FromOfferer ==
  {Msg("file-offer", [fileId |-> 1, filename |-> "f", size |-> 1, fromId |-> 1]),
   Frame(CreateBinary(1, <<9>>)),
   Msg("file-end", [fileId |-> 1])}
FromOther ==
  {Frame(CreateBinary(1, <<7>>)),
   Msg("file-end", [fileId |-> 1])}
SessionOf(e, id) == e \in DOMAIN ends /\ Owner(e) = Hub /\ ends[e].peerId = id
Dialled(n) == \E t \in 1..Len(socks) : socks[t].from = n

NextBound ==
  \/ \E n \in Callers : FirstUp(n, Hub) /\ DiscoveryUp(n, Service(Hub))
  \/ \E n \in Callers : ~Dialled(n) /\ Len(socks) < MaxSocks /\ Connect(n, Hub)
  \/ \E t \in 1..MaxSocks : ServerAccept(t)
  \/ \E t \in 1..MaxSocks : ClientOpen(t)
  \/ \E e \in Ends : RecvPair(e)
  \/ \E e \in Ends, m \in FromOfferer : SessionOf(e, 1) /\ FitsOffers(e, m) /\ PeerSays(e, m)
  \/ \E e \in Ends, m \in FromOther : SessionOf(e, 3) /\ FitsOffers(e, m) /\ PeerSays(e, m)
  \/ \E e \in Ends : RecvFileOffer(e)
  \/ \E e \in Ends : RecvBinary(e)
  \/ \E e \in Ends : RecvFileEnd(e)

SpecBound == Init /\ [][NextBound]_vars

\* a request under another peer's id: nodes 1 and 3 each dial the hub once
\* and pair; the far side of node 3's Session asks for a command, naming in
\* the payload either itself or node 1; the hub's user approves
ReqsFromThree ==
  {Msg("shell-req", [fromId |-> id, fromName |-> 10 + id, cmd |-> "ls"]) : id \in Callers}

NextForged ==
  \/ \E n \in Callers : FirstUp(n, Hub) /\ DiscoveryUp(n, Service(Hub))
  \/ \E n \in Callers : ~Dialled(n) /\ Len(socks) < MaxSocks /\ Connect(n, Hub)
  \/ \E t \in 1..MaxSocks : ServerAccept(t)
  \/ \E t \in 1..MaxSocks : ClientOpen(t)
  \/ \E e \in Ends : RecvPair(e)
  \/ \E e \in Ends, m \in ReqsFromThree : SessionOf(e, 3) /\ PeerSays(e, m)
  \/ \E e \in Ends : RecvShellReq(e)
  \/ ApproveShell(Hub)
  \/ \E i \in 1..MaxExec, err \in BOOLEAN, stdout \in Outputs, stderr \in Outputs :
       ExecFinish(Hub, i, err, stdout, stderr)
  \/ \E e \in Ends : RecvShellOut(e)

SpecForged == Init /\ [][NextForged]_vars

Spec == SpecSession

\* ------------------------------------------------------------ properties
PairsIn(q) == {i \in 1..Len(q) : q[i].type = "pair"}
SentPairs == {i \in 1..Len(sentNow) : sentNow[i].msg.type = "pair"}
Paired(t) == ends[<<t, Client>>].peerId # Null /\ ends[<<t, Server>>].peerId # Null
BothOpen(t) == ends[<<t, Client>>].ready = "open" /\ ends[<<t, Server>>].ready = "open"
SameNodes(t, u) == {socks[t].from, socks[t].to} = {socks[u].from, socks[u].to}
\* no close event was handled on a connection between the nodes of t
NoneClosed(t) ==
  \A u \in 1..Len(socks) : SameNodes(t, u) =>
     \A side \in {Client, Server} : ends[<<u, side>>].ready # "closed"

\* C1: exec is called only by the local approval of a pending request, with
\* that request's command; receiving a message or sending a request runs nothing.
C1_ExecOnlyOnApprove ==
  [][\A n \in Nodes :
       execLog'[n] # execLog[n] =>
          /\ ev'.op = "allow" /\ ev'.node = n
          /\ pendingShell[n].pending
          /\ execLog'[n] = Append(execLog[n], pendingShell[n].cmd)]_vars

\* C1 witness: node 2 approved the request of node 1 and ran it; node 1, which
\* asked, ran nothing.
C1_Witness ==
  /\ ev.op = "allow" /\ ev.node = 2
  /\ execLog[2] # << >>
  /\ execLog[1] = << >>

\* C2: an approval runs the pending command once and empties pendingShell, so
\* an approval that follows with no request received in between runs nothing.
C2_ApproveOnce ==
  [][ev'.op = "allow" =>
       LET n == ev'.node IN
       /\ pendingShell'[n] = NoShell
       /\ Len(execLog'[n]) = Len(execLog[n]) + (IF pendingShell[n].pending THEN 1 ELSE 0)
       /\ Len(running'[n]) = Len(running[n]) + (IF pendingShell[n].pending THEN 1 ELSE 0)]_vars

\* C2 witness: a second approval, after one that ran a command, found nothing
\* pending and ran nothing.
C2_Witness ==
  /\ ev.op = "allow"
  /\ emitted = NoPendingNotice
  /\ Len(execLog[ev.node]) = 1

\* C3 (as claimed, a session taken as whichever socket reaches its peer): when
\* an approved command of requester P finishes while a session with P is
\* established and open, exactly one shell-out is sent, and a shell-out is
\* never sent to a node other than P.
C3_ResultToRequester ==
  [][ev'.op = "exec-done" =>
       LET n == ev'.node
           P == ev'.from
           outs == {i \in 1..Len(sentNow') : sentNow'[i].msg.type = "shell-out"}
       IN
       /\ \A i \in outs : Identity(Owner(Other(sentNow'[i].on))).id = P
       /\ (MapHas(conns[n], P) /\ ends[conns[n][P].ws].ready = "open") =>
             Cardinality(outs) = 1]_vars

\* C4: an approval with nothing pending reports it, sends nothing, runs
\* nothing and changes no state of the engine.
C4_ApproveNothingPending ==
  [][(ev'.op = "allow" /\ ~pendingShell[ev'.node].pending) =>
       /\ emitted' = <<"log:No pending shell requests.">>
       /\ sentNow' = << >>
       /\ UNCHANGED <<up, nodeVars, socks, ends>>]_vars

\* C4 witness: an approval was made with nothing pending while a session was
\* established.
C4_Witness ==
  /\ ev.op = "allow"
  /\ emitted = <<"log:No pending shell requests.">>
  /\ conns[ev.node] # EmptyMap

\* C5: pendingShell is one slot; a received shell-req replaces it with that
\* request, and nothing but a shell-req or an approval changes it.
C5_LastWriteWins ==
  [][\A n \in Nodes :
       /\ (ev'.op = "shell-req" /\ ev'.node = n) =>
            LET p == Head(ends[ev'.end].inbox).payload IN
            pendingShell'[n] = [pending |-> TRUE, fromId |-> p.fromId, cmd |-> p.cmd]
       /\ pendingShell'[n] # pendingShell[n] =>
            /\ ev'.node = n
            /\ \/ ev'.op = "shell-req"
               \/ ev'.op = "allow" /\ pendingShell'[n] = NoShell]_vars

\* C5 witness: a request replaced a pending request for another command.
C5_Witness ==
  /\ ev.op = "shell-req"
  /\ ev.over.pending
  /\ pendingShell[ev.node].pending
  /\ ev.over.cmd # pendingShell[ev.node].cmd

\* C6 (as claimed): a session whose every heartbeat probe was answered before
\* the next tick is not force-closed by that tick.
C6_AnsweredSessionSurvives ==
  [][ev'.op = "tick" =>
       \A k \in DOMAIN conns[ev'.node] :
          LET e == conns[ev'.node][k].ws IN
          (ends[e].ready = "open" /\ ~ends[e].probed) => ends'[e].ready = "open"]_vars

\* C7: a session with an unanswered probe is force-closed by the next tick, and
\* handling the close event leaves no session under the closed peer's id.
C7_UnansweredSessionClosed ==
  [][/\ ev'.op = "tick" =>
          \A k \in DOMAIN conns[ev'.node] :
             LET e == conns[ev'.node][k].ws IN
             (ends[e].ready = "open" /\ ends[e].probed) => ends'[e].ready = "closing"
     /\ (ev'.op = "close" /\ ends[ev'.end].peerId # Null) =>
          ~MapHas(conns'[ev'.node], ends[ev'.end].peerId)]_vars

\* C7 witness: a locally terminated socket, probed and never answered, has had
\* its close event handled and its peer has no session any more.
C7_Witness ==
  /\ ev.op = "close"
  /\ ends[ev.end].probed
  /\ ends[Other(ev.end)].ready = "open"
  /\ ends[ev.end].peerId # Null
  /\ ~MapHas(conns[ev.node], ends[ev.end].peerId)

\* the step handles the close event of the socket of the session that
\* activeTarget names at that node
TargetCloses ==
  /\ ev'.op = "close"
  /\ ends[ev'.end].peerId # Null
  /\ activeTarget[ev'.node] = ends[ev'.end].peerId
  /\ MapHas(conns[ev'.node], ends[ev'.end].peerId)
  /\ conns[ev'.node][ends[ev'.end].peerId].ws = ev'.end

\* the step is a chat input while activeTarget names a peer without a session
ChatToGone ==
  /\ ev'.op = "chat"
  /\ activeTarget[ev'.node] # General
  /\ ~MapHas(conns[ev'.node], activeTarget[ev'.node])

Inbound ==
  {"pair", "msg", "nudge", "shell-req", "shell-out", "file-offer", "file-end",
   "game-invite", "game-start", "game-move"}

\* C9 as stated: handling an inbound message of any type never changes
\* activeTarget.
C9_InboundKeepsTarget ==
  [][ev'.op \in Inbound => activeTarget' = activeTarget]_vars

\* C9 as the code has it: activeTarget changes only by the user's selection,
\* by the reset to broadcast of a chat input whose target has no session, or
\* by handling a game-invite, which sets the receiver's activeTarget to the
\* fromId of the invitation; handling any other inbound message leaves
\* activeTarget unchanged.
C9_OnlyInviteRetargets ==
  [][/\ activeTarget' # activeTarget =>
          \/ ev'.op \in {"select", "game-invite"}
          \/ ChatToGone /\ activeTarget' = [activeTarget EXCEPT ![ev'.node] = General]
     /\ ev'.op \in Inbound \ {"game-invite"} => activeTarget' = activeTarget
     /\ ev'.op = "game-invite" =>
          activeTarget' = [activeTarget EXCEPT ![ev'.node] =
                             Head(ends[ev'.end].inbox).payload.fromId]]_vars

\* C9 witness: an invitation has just been handled by a node whose user had
\* not picked the inviter, and the node now targets the inviter.
C9_Witness ==
  /\ ev.op = "game-invite"
  /\ activeTarget[ev.node] # General
  /\ activeTarget[ev.node] = ends[ev.end].peerId

\* C10, the messages: the dialler's open sends one pair without ack; handling a
\* pair without ack sends one pair with ack and handling one with ack sends
\* nothing; nothing else sends a pair; the handler stores the session under the
\* sender's id on the socket the message came on.
C10_PairStep ==
  /\ ev'.op = "open" =>
       sentNow' = <<[on |-> ev'.end, msg |-> PairMsg(ev'.node, FALSE)]>>
  /\ ev'.op = "pair" =>
       LET p == Head(ends[ev'.end].inbox).payload IN
       /\ sentNow' = IF p.ack THEN << >>
                     ELSE <<[on |-> ev'.end, msg |-> PairMsg(ev'.node, TRUE)]>>
       /\ p.fromId = Identity(Owner(Other(ev'.end))).id
       /\ MapHas(conns'[ev'.node], p.fromId)
       /\ conns'[ev'.node][p.fromId].ws = ev'.end
  /\ ev'.op \notin {"open", "pair"} => SentPairs' = {}

\* C10, the state: a connection carries at most the two pairing messages, each
\* before its receiver has paired, and once both are handled on an open
\* connection each node has a session under the other's id.
C10_PairState ==
  \A t \in 1..Len(socks) :
    LET c == ends[<<t, Client>>]
        s == ends[<<t, Server>>]
    IN
    /\ \A i \in PairsIn(s.inbox) : ~s.inbox[i].payload.ack /\ s.peerId = Null
    /\ \A i \in PairsIn(c.inbox) :
          c.inbox[i].payload.ack /\ c.peerId = Null /\ s.peerId # Null
    /\ Cardinality(PairsIn(s.inbox)) <= 1
    /\ Cardinality(PairsIn(c.inbox)) <= 1
    /\ (Paired(t) /\ BothOpen(t) /\ NoneClosed(t)) =>
          /\ MapHas(conns[socks[t].from], Identity(socks[t].to).id)
          /\ MapHas(conns[socks[t].to], Identity(socks[t].from).id)

C11_PairOnlyOnce ==
  [][(ev'.op = "pair" /\ ends[ev'.end].peerId # Null) =>
        /\ conns' = conns
        /\ sentNow' = << >>]_vars

\* C12 (as claimed): with two paired connections for one peer id, the close
\* of the one the session does not reference leaves the session, whose own
\* socket is open, in conns.
C12_OtherCloseKeepsSession ==
  [][(/\ ev'.op = "close"
      /\ ends[ev'.end].peerId # Null
      /\ MapHas(conns[ev'.node], ends[ev'.end].peerId)
      /\ conns[ev'.node][ends[ev'.end].peerId].ws # ev'.end
      /\ ends[conns[ev'.node][ends[ev'.end].peerId].ws].ready = "open") =>
        /\ MapHas(conns'[ev'.node], ends[ev'.end].peerId)
        /\ conns'[ev'.node][ends[ev'.end].peerId] = conns[ev'.node][ends[ev'.end].peerId]]_vars

\* every close event that was delivered has been handled: no socket of a
\* running node awaits its close handler
ClosesHandled ==
  \A e \in DOMAIN ends :
     Owner(e) \in up =>
        /\ ends[e].ready # "closing"
        /\ ends[e].ready = "open" =>
              ends[Other(e)].ready = "open" /\ Owner(Other(e)) \in up

\* C13 (as claimed): when every delivered close event has been handled, every
\* session of a running node references a socket that has not closed.
C13_SessionsHaveOpenSockets ==
  ClosesHandled =>
     \A n \in up : \A k \in DOMAIN conns[n] : ends[conns[n][k].ws].ready = "open"

\* C16 (as claimed): the sender name a chat event shows is the name in the
\* metadata of the session of the socket the message came on.
C16_SenderFromSession ==
  [][(/\ ev'.op = "msg"
      /\ ends[ev'.end].peerId # Null
      /\ MapHas(conns[ev'.node], ends[ev'.end].peerId)) =>
        ev'.name = conns[ev'.node][ends[ev'.end].peerId].meta.name]_vars

\* the ws.send calls of the step that were made on socket end e
SentOn(q, e) == {i \in 1..Len(q) : q[i].on = e}

\* C14: a chat input with activeTarget "general" makes exactly one send, of
\* the public msg, on every session whose socket is open and none elsewhere;
\* each one reaches its peer's queue whenever that peer's end is open, whatever
\* happens to the sends on the other sessions.
C14_BroadcastToAll ==
  [][(ev'.op = "chat" /\ activeTarget[ev'.node] = General) =>
       LET C == conns[ev'.node]
           live == {k \in DOMAIN C : ends[C[k].ws].ready = "open"}
       IN
       /\ Len(sentNow') = Cardinality(live)
       /\ \A k \in DOMAIN C :
             Cardinality(SentOn(sentNow', C[k].ws)) = IF k \in live THEN 1 ELSE 0
       /\ \A i \in 1..Len(sentNow') :
             /\ sentNow'[i].msg.type = "msg"
             /\ sentNow'[i].msg.payload.isPm = FALSE
             /\ sentNow'[i].msg.payload.fromId = Identity(ev'.node).id
       /\ \A k \in live :
             ends[Other(C[k].ws)].ready = "open" =>
                /\ Len(ends'[Other(C[k].ws)].inbox) = Len(ends[Other(C[k].ws)].inbox) + 1
                /\ ends'[Other(C[k].ws)].inbox[Len(ends'[Other(C[k].ws)].inbox)].type = "msg"]_vars

\* C14 witness: a broadcast has just been sent on two sessions; the peer of one
\* is gone and got nothing, the peer of the other has the message queued.
C14_Witness ==
  /\ ev.op = "chat"
  /\ Len(sentNow) = 2
  /\ sentNow[1].on # sentNow[2].on
  /\ \E i, j \in 1..2 :
        /\ ends[Other(sentNow[i].on)].ready = "closed"
        /\ ends[Other(sentNow[j].on)].ready = "open"
        /\ ends[Other(sentNow[j].on)].inbox # << >>
        /\ ends[Other(sentNow[j].on)].inbox[Len(ends[Other(sentNow[j].on)].inbox)]
              = sentNow[j].msg

\* C15: a chat input with activeTarget a peer id sends one private msg on that
\* peer's session and touches no other socket; with no session for the id it
\* sends nothing, sets activeTarget to "general" and logs the notice.
C15_DirectToTarget ==
  [][(ev'.op = "chat" /\ activeTarget[ev'.node] # General) =>
       LET n == ev'.node
           k == activeTarget[n]
       IN
       IF MapHas(conns[n], k)
       THEN LET w == conns[n][k].ws IN
            /\ \A i \in 1..Len(sentNow') :
                  /\ sentNow'[i].on = w
                  /\ sentNow'[i].msg.type = "msg"
                  /\ sentNow'[i].msg.payload.isPm = TRUE
            /\ Len(sentNow') = IF ends[w].ready = "open" THEN 1 ELSE 0
            /\ \A e \in DOMAIN ends : e # Other(w) => ends'[e] = ends[e]
            /\ activeTarget' = activeTarget
       ELSE /\ sentNow' = << >>
            /\ ends' = ends
            /\ activeTarget' = [activeTarget EXCEPT ![n] = General]
            /\ Len(emitted') = 1
            /\ emitted' # <<"chat">>]_vars

\* C15 witness: with two sessions open, a private message has just been sent
\* on the target's one only.
C15_Witness ==
  /\ ev.op = "chat"
  /\ activeTarget[ev.node] # General
  /\ Cardinality(DOMAIN conns[ev.node]) = 2
  /\ \A k \in DOMAIN conns[ev.node] : ends[conns[ev.node][k].ws].ready = "open"
  /\ Len(sentNow) = 1
  /\ sentNow[1].on = conns[ev.node][activeTarget[ev.node]].ws
  /\ sentNow[1].msg.payload.isPm

\* the types of the messages of a file transfer
FileTypes == {"file-offer", "binary", "file-end"}

\* the step is the "data" / "end" event of read stream i of node n
DataStep(n, i) == ev'.op = "read-data" /\ ev'.node = n /\ ev'.stream = i
EndStep(n, i) == ev'.op = "read-end" /\ ev'.node = n /\ ev'.stream = i

\* C18 as stated: every chunk of the source goes on the wire as one frame and
\* the end of the stream as one file-end, on the session captured by sendFile.
C18_WholeSequenceSent ==
  [][\A n \in Nodes : \A i \in 1..Len(reads[n]) :
        (DataStep(n, i) \/ EndStep(n, i)) =>
           /\ Len(sentNow') = 1
           /\ sentNow'[1].on = reads[n][i].ws]_vars

\* C18 as the code has it: sendFile sends the offer on the session of
\* activeTarget and captures it; each later event of the stream sends, on the
\* captured socket only and only while it is OPEN, the frame of the next chunk
\* under the offer's fileId, and after the last chunk the file-end; nothing
\* else sends messages of a transfer, whatever activeTarget is by then.
C18_SequenceWhileOpen ==
  [][/\ \A i \in 1..Len(sentNow') :
           sentNow'[i].msg.type \in FileTypes => ev'.op \in {"send", "read-data", "read-end"}
     /\ ev'.op = "send" /\ reads' # reads =>
           LET n == ev'.node
               r == reads'[n][Len(reads'[n])]
           IN
           /\ r.ws = conns[n][activeTarget[n]].ws
           /\ r.left = Disk[r.filename]
           /\ \A j \in 1..Len(reads[n]) : reads[n][j].fileId # r.fileId
           /\ sentNow' = IF ends[r.ws].ready = "open"
                         THEN <<[on |-> r.ws,
                                 msg |-> Msg("file-offer",
                                             [fileId |-> r.fileId, filename |-> r.filename,
                                              size |-> Len(Disk[r.filename]),
                                              fromId |-> Identity(n).id])]>>
                         ELSE << >>
     /\ \A n \in Nodes : \A i \in 1..Len(reads[n]) :
           LET r == reads[n][i] IN
           /\ DataStep(n, i) =>
                /\ r.left # << >>
                /\ Len(sentNow') = IF ends[r.ws].ready = "open" THEN 1 ELSE 0
                /\ \A j \in 1..Len(sentNow') :
                      LET p == ParseBinary(sentNow'[j].msg.payload.buf) IN
                      /\ sentNow'[j].on = r.ws
                      /\ sentNow'[j].msg.type = "binary"
                      /\ p.ok /\ p.header.fileId = r.fileId
                      /\ Len(p.data) = Min(ChunkSize, Len(r.left))
                      /\ p.data \o reads'[n][i].left = r.left
           /\ EndStep(n, i) =>
                /\ r.left = << >>
                /\ sentNow' = IF ends[r.ws].ready = "open"
                              THEN <<[on |-> r.ws,
                                      msg |-> Msg("file-end", [fileId |-> r.fileId])]>>
                              ELSE << >>]_vars

\* C18 witness: the stream of a three-byte file has just sent its file-end on
\* the captured socket while activeTarget is "general" again.
C18_Witness ==
  /\ ev.op = "read-end"
  /\ reads[ev.node][ev.stream].filename = "f"
  /\ Len(sentNow) = 1
  /\ sentNow[1].on = reads[ev.node][ev.stream].ws
  /\ activeTarget[ev.node] = General
  /\ ends[Other(ev.end)].ready = "open"

\* the step handles a binary frame that parsed and names an open transfer
WritesFrame ==
  /\ ev'.op = "binary"
  /\ ev'.parsed.ok
  /\ ev'.parsed.header.kind = "object"
  /\ MapHas(transfers[ev'.node], ev'.parsed.header.fileId)

\* the step handles a binary frame that parsed and names no open transfer
StrayFrame ==
  /\ ev'.op = "binary"
  /\ ev'.parsed.ok
  /\ ev'.parsed.header.kind = "object"
  /\ ev'.parsed.header.fileId # Undefined
  /\ ~MapHas(transfers[ev'.node], ev'.parsed.header.fileId)

\* C19, the steps: a file-offer opens an empty sink and registers it under the
\* fileId; a frame for an open transfer appends its payload to that transfer's
\* sink and to no other; a file-end for an open transfer closes its sink,
\* keeps its bytes and removes the transfer; no other step touches a sink.
C19_ReceiveStep ==
  /\ ev'.op = "file-offer" =>
        LET n == ev'.node
            payload == Head(ends[ev'.end].inbox).payload
        IN
        /\ sinks'[n] = Append(sinks[n], [path |-> payload.filename, data |-> << >>,
                                         ended |-> FALSE])
        /\ transfers'[n] = MapSet(transfers[n], payload.fileId, Len(sinks'[n]))
  /\ WritesFrame =>
        LET n == ev'.node
            k == transfers[n][ev'.parsed.header.fileId]
        IN
        /\ sinks'[n] = [sinks[n] EXCEPT ![k].data = sinks[n][k].data \o ev'.parsed.data]
        /\ ~sinks[n][k].ended
        /\ transfers' = transfers
  /\ (ev'.op = "file-end" /\ MapHas(transfers[ev'.node], Head(ends[ev'.end].inbox).payload.fileId)) =>
        LET n == ev'.node
            fileId == Head(ends[ev'.end].inbox).payload.fileId
            k == transfers[n][fileId]
        IN
        /\ sinks'[n] = [sinks[n] EXCEPT ![k].ended = TRUE]
        /\ transfers'[n] = MapDel(transfers[n], fileId)
  /\ (sinks' # sinks \/ transfers' # transfers) =>
        ev'.op \in {"file-offer", "binary", "file-end"}

\* C19, the result: a sink that was closed by file-end holds exactly the bytes
\* of the file that was offered under its name.
C19_ReceiveResult ==
  \A n \in Nodes : \A k \in 1..Len(sinks[n]) :
     sinks[n][k].ended => sinks[n][k].data = Disk[sinks[n][k].path]

C20_StrayFrameDropped ==
  [][StrayFrame =>
       /\ nodeVars' = nodeVars
       /\ up' = up
       /\ sentNow' = << >>
       /\ emitted' = << >>
       /\ ends' = Popped(ev'.end)]_vars

\* C20 witness: a frame under the id of a transfer that file-end had already
\* closed has just been dropped on a socket that is still paired and open.
C20_Witness ==
  /\ ev.op = "binary"
  /\ ev.parsed.ok
  /\ ev.parsed.header.fileId # NeverOffered
  /\ ~MapHas(transfers[ev.node], ev.parsed.header.fileId)
  /\ ends[ev.end].ready = "open"
  /\ MapHas(conns[ev.node], ends[ev.end].peerId)
  /\ \E k \in 1..Len(sinks[ev.node]) :
        sinks[ev.node][k].ended /\ sinks[ev.node][k].data = Disk[sinks[ev.node][k].path]

\* the step is a direct-only command entered while activeTarget is "general"
\* or names no session, or a sendFile of a path that does not exist
NoTarget(n) == activeTarget[n] = General \/ ~MapHas(conns[n], activeTarget[n])
AppError ==
  \/ ev'.op = "send" /\ (ev'.path \notin DOMAIN Disk \/ NoTarget(ev'.node))
  \/ ev'.op \in {"nudge-cmd", "exec-cmd", "play", "accept-cmd"} /\ NoTarget(ev'.node)

\* C17 (as claimed): such a command sends nothing, changes no state of the
\* node and reports the condition with a notice.
C17_AppErrorsReported ==
  [][AppError =>
       /\ sentNow' = << >>
       /\ ends' = ends
       /\ nodeVars' = nodeVars
       /\ up' = up
       /\ Len(emitted') = 1]_vars

\* C21 (as claimed): every write stream that was opened is either the one
\* its node's transfers map holds for some fileId or has been ended; so no
\* fileId ever has a second open sink.
C21_OneSinkPerFileId ==
  \A n \in Nodes : \A k \in 1..Len(sinks[n]) :
     \/ sinks[n][k].ended
     \/ \E fileId \in DOMAIN transfers[n] : transfers[n][fileId] = k

\* the step handles a binary frame that is too short, declares more header
\* than it carries, or whose header is no JSON object with a fileId
MalformedFrame ==
  /\ ev'.op = "binary"
  /\ \/ ~ev'.parsed.ok
     \/ ev'.parsed.header.kind # "object"
     \/ ev'.parsed.header.fileId = Undefined

\* C23 (as claimed): handling a malformed binary frame only consumes it: no
\* state of the node changes, no sink is written, the socket and its session
\* stay and the node keeps running.
C23_MalformedFrameDropped ==
  [][MalformedFrame =>
       /\ nodeVars' = nodeVars
       /\ up' = up
       /\ ends' = Popped(ev'.end)
       /\ sentNow' = << >>]_vars

\* C22: decoding the frame that createBinary built from a fileId and a chunk
\* gives a header with that fileId and data equal to the chunk, byte for
\* byte, the empty chunk included.
C22_FramingRoundTrip ==
  ev.op = "decode" =>
     /\ ev.parsed.ok
     /\ ev.parsed.header.kind = "object"
     /\ ev.parsed.header.fileId = ev.fileId
     /\ ev.parsed.data = ev.chunk

\* C22 witness: the frame of an empty chunk has been decoded
C22_Witness ==
  /\ ev.op = "decode"
  /\ ev.chunk = << >>
  /\ ev.parsed.ok
  /\ ev.parsed.data = << >>

C25_DialFailureReported ==
  [][ev'.op = "dial-error" =>
       /\ ev'.node \in up'
       /\ Len(emitted') >= 1
       /\ conns' = conns
       /\ socks' = socks]_vars

\* C26 (as claimed): the accept command of a node whose activeTarget has a
\* session leaves that node running with an active game, an empty board, turn
\* X and role O, and sends game-start; handling game-start leaves the
\* receiver with an active game, an empty board, turn X and the role the
\* message names.
C26_AcceptStartsGame ==
  [][/\ (ev'.op = "accept-cmd" /\ MapHas(conns[ev'.node], activeTarget[ev'.node])) =>
          /\ ev'.node \in up'
          /\ game'[ev'.node] = [active |-> TRUE, board |-> EmptyBoard, turn |-> "X",
                                myRole |-> "O"]
          /\ \E i \in 1..Len(sentNow') : sentNow'[i].msg.type = "game-start"
     /\ ev'.op = "game-start" =>
          game'[ev'.node] = [active |-> TRUE, board |-> EmptyBoard, turn |-> "X",
                             myRole |-> Head(ends[ev'.end].inbox).payload.role]]_vars

\* the step is a press of a cell while the game is not active, or the cell is
\* taken, or the turn is not the local role's
InvalidMove ==
  /\ ev'.op = "move"
  /\ \/ ~game[ev'.node].active
     \/ game[ev'.node].board[ev'.idx] # "-"
     \/ game[ev'.node].turn # game[ev'.node].myRole

\* C27: an invalid local move changes nothing (board, turn and active flag
\* included), sends nothing and emits nothing.
C27_InvalidMoveNoOp ==
  [][InvalidMove =>
       /\ game' = game
       /\ ends' = ends
       /\ sentNow' = << >>
       /\ emitted' = << >>]_vars

\* C27 witness: in an active game a node whose turn it is not has pressed an
\* empty cell, and nothing was emitted or sent.
C27_Witness ==
  /\ ev.op = "move"
  /\ game[ev.node].active
  /\ game[ev.node].myRole \in Roles
  /\ game[ev.node].turn # game[ev.node].myRole
  /\ game[ev.node].board[ev.idx] = "-"
  /\ emitted = << >>
  /\ sentNow = << >>

\* C28 (as claimed): a received game-move changes board or turn only if the
\* game is active, the cell is empty and the turn is that of the role the
\* message names.
C28_RemoteMoveChecked ==
  [][ev'.op = "game-move" =>
       LET n == ev'.node
           payload == Head(ends[ev'.end].inbox).payload
       IN
       \/ /\ game[n].active
          /\ game[n].board[payload.idx] = "-"
          /\ game[n].turn = payload.role
       \/ /\ game'[n].board = game[n].board
          /\ game'[n].turn = game[n].turn]_vars

Marks(board, r) == Cardinality({c \in DOMAIN board : board[c] = r})

\* C29 (as claimed): on every board the X marks are as many as the O marks or
\* one more, and the turn is O's exactly when there is one more.
C29_TurnsAlternate ==
  \A n \in Nodes :
     LET x == Marks(game[n].board, "X")
         o == Marks(game[n].board, "O")
     IN
     /\ x - o \in {0, 1}
     /\ game[n].turn = IF x = o THEN "X" ELSE "O"

\* no game message is on its way to either end of a connection
NoGameMsg(t) ==
  \A side \in {Client, Server} :
     \A i \in 1..Len(ends[<<t, side>>].inbox) :
        ends[<<t, side>>].inbox[i].type \notin {"game-start", "game-move"}

\* C30 (as claimed): when both nodes of an open, paired connection have
\* taken their roles from one accept and no game message is in flight
\* between them, they hold the same board, turn and active flag.
C30_BoardsMirror ==
  \A t \in 1..Len(socks) :
     LET a == socks[t].from
         b == socks[t].to
     IN
     (/\ Paired(t)
      /\ BothOpen(t)
      /\ NoGameMsg(t)
      /\ game[a].myRole \in Roles
      /\ game[b].myRole \in Roles
      /\ game[a].myRole # game[b].myRole)
     => /\ game[a].board = game[b].board
        /\ game[a].turn = game[b].turn
        /\ game[a].active = game[b].active

\* the eight lines of the board, by rows, columns and diagonals, and the marks
\* that fill one of them
RefLines ==
  {{3 * r, 3 * r + 1, 3 * r + 2} : r \in 0..2}
  \cup {{c, c + 3, c + 6} : c \in 0..2}
  \cup {{0, 4, 8}, {2, 4, 6}}
Winners(board) == {m \in {"X", "O"} : \E L \in RefLines : \A c \in L : board[c] = m}

\* C31: on every board checkWin returns a mark that fills a line when there is
\* one, otherwise DRAW when no cell is empty, otherwise no result.
C31_CheckWinMatchesReference ==
  ev.op = "check" =>
     IF Winners(ev.board) # {} THEN ev.result \in Winners(ev.board)
     ELSE IF \A c \in 0..8 : ev.board[c] # "-" THEN ev.result = "DRAW"
     ELSE ev.result = "none"

\* C31 witness: the board X X X / - O O / - - - has been checked and X won
C31_Witness ==
  /\ ev.op = "check"
  /\ ev.board = [c \in 0..8 |-> IF c \in {0, 1, 2} THEN "X"
                                ELSE IF c \in {4, 5} THEN "O" ELSE "-"]
  /\ ev.result = "X"

\* C32: a finished game is frozen. Whenever a node's board holds a complete
\* line or is full, its game is not active; and while its game is not active
\* no move of its user and no relayed move it handles changes its board
\* (only accepting an invitation or handling game-start gives a fresh one).
C32_OverMeansInactive ==
  \A n \in Nodes : CheckWin(game[n].board) # "none" => ~game[n].active

C32_InactiveBoardKept ==
  \A n \in Nodes :
    (~game[n].active /\ ev'.op \in {"move", "game-move"} /\ ev'.node = n)
      => game'[n].board = game[n].board

C32_GameOverFreezes == [][C32_InactiveBoardKept]_vars /\ []C32_OverMeansInactive

\* a user presses a free cell of a won board and nothing happens
C32_Witness ==
  /\ ev.op = "move"
  /\ emitted = << >>
  /\ CheckWin(game[ev.node].board) \in Roles
  /\ game[ev.node].board[ev.idx] = "-"
  /\ ~game[ev.node].active

\* C33: move rejects its own replay. In every reachable game, for every cell
\* and role, if move(cell, role) succeeds then the same call made again at
\* once is rejected and leaves board, turn and active flag as the first call
\* left them; and right after a press that was applied, the same press again
\* would be rejected and change nothing.
C33_ReplayRejected ==
  /\ \A n \in Nodes, idx \in Cells, role \in Roles :
       GameMoveOk(game[n], idx, role) =>
         LET g1 == GameMove(game[n], idx, role)
         IN /\ ~GameMoveOk(g1, idx, role)
            /\ GameMove(g1, idx, role) = g1
  /\ (ev.op = "move" /\ emitted # << >>) =>
       LET g == game[ev.node]
       IN /\ ~GameMoveOk(g, ev.idx, g.myRole)
          /\ GameMove(g, ev.idx, g.myRole) = g

\* a press has just been applied and the game goes on: pressing it again is
\* refused by the cell being taken
C33_Witness ==
  /\ ev.op = "move"
  /\ emitted = <<"game_update">>
  /\ game[ev.node].active
  /\ game[ev.node].board[ev.idx] = game[ev.node].myRole
  /\ \E idx \in Cells, role \in Roles : GameMoveOk(game[ev.node], idx, role)

\* C34: the registry follows discovery. An up event for a foreign peerId
\* leaves exactly one entry for it, holding that announcement's data; a down
\* event for a peerId leaves none; both leave every other entry as it was; an
\* announcement of the node itself or without an id changes nothing; no other
\* event touches the registry; the registry never holds the local identity;
\* and no discovery event creates, removes or changes a Session.
C34_DiscoveryStep ==
  LET n == ev'.node
      s == ev'.svc
      foreign == s.id # Null /\ s.id # Identity(n).id
  IN
  IF ev'.op \in {"up", "down"}
  THEN /\ conns' = conns /\ socks' = socks /\ ends' = ends
       /\ \A m \in Nodes \ {n} : peers'[m] = peers[m]
       /\ \A k \in (DOMAIN peers[n] \cup DOMAIN peers'[n]) \ {s.id} :
            /\ MapHas(peers[n], k) /\ MapHas(peers'[n], k)
            /\ peers'[n][k] = peers[n][k]
       /\ (ev'.op = "up" /\ foreign) => MapHas(peers'[n], s.id) /\ peers'[n][s.id] = s
       /\ (ev'.op = "up" /\ ~foreign) => peers'[n] = peers[n]
       /\ (ev'.op = "down" /\ s.id # Null) => ~MapHas(peers'[n], s.id)
       /\ (ev'.op = "down" /\ s.id = Null) => peers'[n] = peers[n]
  ELSE peers' = peers

C34_NeverSelf ==
  \A n \in Nodes : \A k \in DOMAIN peers[n] :
    k # Identity(n).id /\ k # Null /\ peers[n][k].id = k

C34_RegistryFollowsDiscovery == [][C34_DiscoveryStep]_vars /\ []C34_NeverSelf

\* node 2, paired with node 1 and known under its first name, is announced
\* again under another name: one entry, the new data, the Session kept
C34_Witness ==
  /\ ev.op = "up"
  /\ ev.svc = Renamed(2)
  /\ DOMAIN peers[1] = {2, 3}
  /\ peers[1][2] = Renamed(2)
  /\ MapHas(conns[1], 2)

\* C35 as stated: an application message (any control message but pair, or a
\* binary frame) handled on a transport on which no pairing message has been
\* processed changes nothing of the node's state: no pending command request
\* is stored and no transfer is opened.
C35_UnpairedIgnored ==
  [][(/\ ev'.op \in (Inbound \ {"pair"}) \cup {"binary"}
      /\ ends[ev'.end].peerId = Null)
     => nodeVars' = nodeVars]_vars

\* C36 as stated: a binary frame or a file-end is applied to a transfer only
\* if it arrives on the transport of the file-offer that opened the transfer.
\* Under SpecBound every offer arrives on the hub's Session with node 1, so a
\* frame or file-end the hub handles on its Session with node 3 writes to no
\* sink, ends none and removes no transfer.
C36_TransferBoundToSession ==
  [][(/\ ev'.op \in {"binary", "file-end"}
      /\ SessionOf(ev'.end, 3))
     => sinks' = sinks /\ transfers' = transfers]_vars

\* C37 as stated: the requester stored with a pending command request is the
\* peerId of the Session on whose transport the request arrived, whatever the
\* payload names; and the result of an approved command is sent on the
\* transport of that requester's Session only.
C37_RequesterIsSession ==
  [][/\ ev'.op = "shell-req"
          => pendingShell'[ev'.node].fromId = ends[ev'.end].peerId
     /\ (ev'.op = "exec-done" /\ sentNow' # << >>)
          => \A i \in 1..Len(sentNow') : SessionOf(sentNow'[i].on, 3)]_vars

====
